---------------------------- MODULE Spec2Model ----------------------------
(***************************************************************************)
(* Model of pptx_mcp_server: the text inventory extraction                 *)
(* (tools/inventory.py) and the extract_text_inventory tool (server.py).   *)
(*                                                                         *)
(* Units.  Shape geometry is in EMU (914400 per inch).  Values the code    *)
(* rounds to 2 decimals of an inch are integers counting hundredths of an  *)
(* inch.  Pixel heights are counted in thirds of a pixel (1/288 inch), so  *)
(* that font_size * 96 / 72 is an integer.  A font size in points is its    *)
(* whole points (font_size) and the tenths of a point beyond them           *)
(* (font_size_tenths).  Decimal arithmetic is exact: the representation     *)
(* error of binary floating point is not modelled.                          *)
(***************************************************************************)
EXTENDS Integers, Sequences, FiniteSets, TLC

VARIABLES
    doc,          \* the file at pptx_path: exists, suffix, parseable, slides
    result,       \* the TextContent the last call_tool returned
    results,      \* per issues_only flag, the inventories the last two successful calls returned
    outfile,      \* <<the content of the file at output_path>>, <<>> while there is none
    sd_in,        \* arguments of a pending ShapeData(...) construction
    sd,           \* the ShapeData object constructed from sd_in
    shapes,       \* the list of ShapeData handed to detect_overlaps, or the list a function run on its own returned
    pc,           \* where the function under way stands: "start", ..., "done"
    args,         \* the arguments of the call under way
    presentation  \* the slides of the Presentation that call has loaded

vars == <<doc, result, results, outfile, sd_in, sd, shapes, pc, args, presentation>>

---------------------------------------------------------------------------
(* Arithmetic helpers *)

Abs(x) == IF x < 0 THEN -x ELSE x

Min(a, b) == IF a <= b THEN a ELSE b

Max(a, b) == IF a >= b THEN a ELSE b

\* int(x) of Python: truncation toward zero of n / d (d > 0)
TruncDiv(n, d) == IF n >= 0 THEN n \div d ELSE -((-n) \div d)

\* round(n / d) of Python for n >= 0, d > 0: to nearest, a tie to the even neighbour
RoundDiv(n, d) ==
    LET q == n \div d
        r == n % d
    IN  IF 2 * r < d THEN q
        ELSE IF 2 * r > d THEN q + 1
        ELSE IF q % 2 = 0 THEN q ELSE q + 1

\* round(n / d) for any sign of n
RoundDivSigned(n, d) == IF n >= 0 THEN RoundDiv(n, d) ELSE -RoundDiv(-n, d)

EmuPerInch == 914400

EmuPerHundredth == EmuPerInch \div 100

\* inches_to_pixels: dots per inch
Dpi == 96

\* EMU per pixel at 96 DPI
EmuPerPixel == EmuPerInch \div Dpi

\* round(emu_to_inches(emu), 2), in hundredths of an inch
EmuToHundredths(emu) == RoundDivSigned(emu, EmuPerHundredth)

\* None where a number is expected: no length, size or amount is negative
None == -1

\* None where a string is expected
NoneStr == "None"

---------------------------------------------------------------------------
(* Text.  A paragraph's text is a sequence of lines (split on "\n"), a line *)
(* a sequence of words (split on " "); the word "" stands between two       *)
(* consecutive spaces.                                                     *)

\* the glyphs U+2022, U+25CF and U+25CB, by name
BulletSymbols == {"(bullet)", "(black-circle)", "(white-circle)"}

DigitWords == {"7", "12"}

RECURSIVE Flatten(_)
Flatten(seqs) ==
    IF seqs = <<>> THEN <<>> ELSE Head(seqs) \o Flatten(Tail(seqs))

\* the words of a paragraph, over all its lines
ParagraphWords(p) == Flatten(p.lines)

\* paragraph.text.strip() is not empty
ParagraphHasText(p) == \E i \in 1..Len(ParagraphWords(p)) : ParagraphWords(p)[i] # ""

\* the words of text_frame.text
FrameWords(shape) == Flatten([i \in 1..Len(shape.paragraphs) |-> ParagraphWords(shape.paragraphs[i])])

NonEmptyWords(ws) == SelectSeq(ws, LAMBDA w : w # "")

\* text_frame.text.strip() is not empty
FrameHasText(shape) == NonEmptyWords(FrameWords(shape)) # <<>>

\* text_frame.text.strip().isdigit(): one word, made of digits
FrameTextIsDigit(shape) ==
    LET ws == NonEmptyWords(FrameWords(shape))
    IN  Len(ws) = 1 /\ ws[1] \in DigitWords

\* paragraph.text.strip().startswith(symbol + " ")
StartsWithBullet(p) ==
    \E i \in 1..Len(p.lines) : \E j \in 1..Len(p.lines[i]) :
        /\ p.lines[i][j] \in BulletSymbols
        /\ \A i2 \in 1..Len(p.lines) : \A j2 \in 1..Len(p.lines[i2]) :
              (i2 < i \/ (i2 = i /\ j2 < j)) => p.lines[i2][j2] = ""
        /\ j < Len(p.lines[i])
        /\ \E i2 \in 1..Len(p.lines) : \E j2 \in 1..Len(p.lines[i2]) :
              (i2 > i \/ (i2 = i /\ j2 > j)) /\ p.lines[i2][j2] # ""

---------------------------------------------------------------------------
(* Shape Filter and Geometry Resolver *)

\* hasattr(shape, "shapes")
IsGroup(shape) == shape.is_group

\* is_valid_shape without the test of the text
is_valid_shape_skip_text(shape) ==
    IF ~shape.has_text_frame THEN FALSE
    ELSE IF shape.placeholder_type = "SLIDE_NUMBER" THEN FALSE
    ELSE IF shape.placeholder_type = "FOOTER" /\ FrameTextIsDigit(shape) THEN FALSE
    ELSE TRUE

\* is_valid_shape turning every footer placeholder away
is_valid_shape_without_footers(shape) ==
    IF ~shape.has_text_frame THEN FALSE
    ELSE IF ~FrameHasText(shape) THEN FALSE
    ELSE IF shape.placeholder_type = "SLIDE_NUMBER" THEN FALSE
    ELSE IF shape.placeholder_type = "FOOTER" THEN FALSE
    ELSE TRUE

is_valid_shape(shape) ==
    IF ~shape.has_text_frame THEN FALSE
    ELSE IF ~FrameHasText(shape) THEN FALSE
    ELSE IF shape.placeholder_type = "SLIDE_NUMBER" THEN FALSE
    ELSE IF shape.placeholder_type = "FOOTER" /\ FrameTextIsDigit(shape) THEN FALSE
    ELSE TRUE

\* collect_shapes_with_absolute_positions handing its own offset down to the
\* children of a group
RECURSIVE collect_shapes_without_group_offsets(_, _, _)
collect_shapes_without_group_offsets(shape, parent_left, parent_top) ==
    IF IsGroup(shape)
    THEN Flatten([i \in 1..Len(shape.shapes) |->
            collect_shapes_without_group_offsets(shape.shapes[i], parent_left, parent_top)])
    ELSE IF is_valid_shape(shape)
    THEN << [shape |-> shape,
             absolute_left |-> parent_left + shape.left,
             absolute_top |-> parent_top + shape.top] >>
    ELSE <<>>

RECURSIVE collect_shapes_with_absolute_positions(_, _, _)
collect_shapes_with_absolute_positions(shape, parent_left, parent_top) ==
    IF IsGroup(shape)
    THEN LET abs_group_left == parent_left + shape.left
             abs_group_top == parent_top + shape.top
         IN  Flatten([i \in 1..Len(shape.shapes) |->
                 collect_shapes_with_absolute_positions(shape.shapes[i], abs_group_left, abs_group_top)])
    ELSE IF is_valid_shape(shape)
    THEN << [shape |-> shape,
             absolute_left |-> parent_left + shape.left,
             absolute_top |-> parent_top + shape.top] >>
    ELSE <<>>

---------------------------------------------------------------------------
(* Overflow Estimator *)

\* number of characters of a word of the vocabulary
WordChars(w) ==
    CASE w = "" -> 0
      [] w \in BulletSymbols -> 1
      [] w = "7" -> 1
      [] w = "12" -> 2
      [] w = "Hi" -> 2
      [] w = "Word" -> 4
      [] OTHER -> 8

RECURSIVE SumChars(_)
SumChars(ws) == IF ws = <<>> THEN 0 ELSE WordChars(Head(ws)) + SumChars(Tail(ws))

\* the string is ""
IsEmptyString(ws) == ws = <<>> \/ ws = <<"">>

\* characters of the string made of the words ws joined by single spaces
StringChars(ws) == IF ws = <<>> THEN 0 ELSE SumChars(ws) + Len(ws) - 1

\* draw.textlength(text, font=font) in pixels: the measuring facility, here
\* half the font size per character
textlength(ws, font_size) == (StringChars(ws) * font_size) \div 2

RECURSIVE WrapWords(_, _, _, _, _)
WrapWords(words, current_line, wrapped, max_width_px, font_size) ==
    IF words = <<>>
    THEN IF ~IsEmptyString(current_line) THEN Append(wrapped, current_line) ELSE wrapped
    ELSE LET word == Head(words)
             test_line == IF IsEmptyString(current_line) THEN <<word>> ELSE Append(current_line, word)
         IN  IF textlength(test_line, font_size) <= max_width_px
             THEN WrapWords(Tail(words), test_line, wrapped, max_width_px, font_size)
             ELSE WrapWords(Tail(words), <<word>>,
                            IF ~IsEmptyString(current_line) THEN Append(wrapped, current_line) ELSE wrapped,
                            max_width_px, font_size)

_wrap_text_line(line, max_width_px, font_size) ==
    IF IsEmptyString(line) THEN << <<"">> >>
    ELSE IF textlength(line, font_size) <= max_width_px THEN <<line>>
    ELSE WrapWords(line, <<>>, <<>>, max_width_px, font_size)

\* the documented defaults of _get_usable_dimensions, in EMU
DefaultMarginTopBottom == (5 * EmuPerInch) \div 100

DefaultMarginLeftRight == (10 * EmuPerInch) \div 100

\* a margin of 0 is falsy and gives the default
MarginOr(margin, default) == IF margin # None /\ margin # 0 THEN margin ELSE default

\* <<usable_width_px, usable_height_px>>; width and height in hundredths of an inch
_get_usable_dimensions(width, height, text_frame) ==
    LET top == MarginOr(text_frame.margin_top, DefaultMarginTopBottom)
        bottom == MarginOr(text_frame.margin_bottom, DefaultMarginTopBottom)
        left == MarginOr(text_frame.margin_left, DefaultMarginLeftRight)
        right == MarginOr(text_frame.margin_right, DefaultMarginLeftRight)
    IN  << TruncDiv(width * EmuPerHundredth - left - right, EmuPerPixel),
           TruncDiv(height * EmuPerHundredth - top - bottom, EmuPerPixel) >>

TitleTypes == {"TITLE", "CENTER_TITLE", "SUBTITLE", "VERTICAL_TITLE"}

FallbackFontSize == 14

\* the first sz of the master's titleStyle or bodyStyle, else 14
_get_default_font_size(shape) ==
    LET style_name == IF shape.placeholder_type \in TitleTypes THEN "titleStyle" ELSE "bodyStyle"
    IN  IF shape.master_sz[style_name] = None THEN FallbackFontSize
        ELSE shape.master_sz[style_name]

\* the wrapped lines of a paragraph: every line of the text, wrapped
RECURSIVE WrappedLines(_, _, _)
WrappedLines(lines, max_width_px, font_size) ==
    IF lines = <<>> THEN <<>>
    ELSE _wrap_text_line(Head(lines), max_width_px, font_size)
           \o WrappedLines(Tail(lines), max_width_px, font_size)

PtOrZero(v) == IF v = None THEN 0 ELSE v

\* para_data.font_size is set and not 0
HasFontSize(paragraph) == PtOrZero(paragraph.font_size) # 0 \/ paragraph.font_size_tenths # 0

\* height of paragraph para_idx (0-based) in thirds of a pixel
ParagraphHeight(paragraph, para_idx, usable_width_px, default_font_size) ==
    IF ~ParagraphHasText(paragraph) THEN 0
    ELSE LET font_size == IF HasFontSize(paragraph) THEN PtOrZero(paragraph.font_size) ELSE default_font_size
             all_wrapped_lines == WrappedLines(paragraph.lines, usable_width_px, font_size)
             line_height == IF PtOrZero(paragraph.line_spacing) # 0
                            THEN paragraph.line_spacing * 4 ELSE font_size * 4
         IN  IF all_wrapped_lines = <<>> THEN 0
             ELSE (IF para_idx > 0 THEN PtOrZero(paragraph.space_before) * 4 ELSE 0)
                  + Len(all_wrapped_lines) * line_height
                  + PtOrZero(paragraph.space_after) * 4

RECURSIVE TotalHeight(_, _, _, _)
TotalHeight(paragraphs, para_idx, usable_width_px, default_font_size) ==
    IF para_idx >= Len(paragraphs) THEN 0
    ELSE ParagraphHeight(paragraphs[para_idx + 1], para_idx, usable_width_px, default_font_size)
         + TotalHeight(paragraphs, para_idx + 1, usable_width_px, default_font_size)

\* the least overflow recorded is more than this many hundredths of an inch
FrameOverflowTolerance == 5

\* thirds of a pixel per inch
ThirdsPerInch == 3 * Dpi

\* the outcome of _estimate_frame_overflow: the exception it lets through, or
\* the value it leaves in frame_overflow_bottom (hundredths of an inch)
_estimate_frame_overflow(shape, width, height) ==
    IF ~shape.has_text_frame THEN [raised |-> FALSE, frame_overflow_bottom |-> None]
    ELSE IF shape.paragraphs = <<>> THEN [raised |-> FALSE, frame_overflow_bottom |-> None]
    ELSE LET usable == _get_usable_dimensions(width, height, shape)
             usable_width_px == usable[1]
             usable_height_px == usable[2]
         IN  IF usable_width_px <= 0 \/ usable_height_px <= 0
             THEN [raised |-> FALSE, frame_overflow_bottom |-> None]
             ELSE IF shape.measure_fails /\ \E i \in 1..Len(shape.paragraphs) : ParagraphHasText(shape.paragraphs[i])
             THEN [raised |-> TRUE, frame_overflow_bottom |-> None]
             ELSE LET total_height == TotalHeight(shape.paragraphs, 0, usable_width_px, _get_default_font_size(shape))
                      overflow == total_height - 3 * usable_height_px
                      overflow_inches == RoundDiv(overflow * 100, ThirdsPerInch)
                  IN  IF total_height > 3 * usable_height_px /\ overflow_inches > FrameOverflowTolerance
                      THEN [raised |-> FALSE, frame_overflow_bottom |-> overflow_inches]
                      ELSE [raised |-> FALSE, frame_overflow_bottom |-> None]

---------------------------------------------------------------------------
(* ShapeData *)

\* the least slide overflow recorded is more than this many hundredths of an inch
SlideOverflowTolerance == 1

\* EdgeOverflow with the tolerance applied to the excess before it is rounded
EdgeOverflowUnrounded(edge_emu, slide_emu) ==
    IF edge_emu > slide_emu /\ edge_emu - slide_emu > SlideOverflowTolerance * EmuPerHundredth
    THEN EmuToHundredths(edge_emu - slide_emu)
    ELSE None

\* one edge of _calculate_slide_overflow: the excess in hundredths, or None
EdgeOverflow(edge_emu, slide_emu) ==
    IF edge_emu > slide_emu /\ EmuToHundredths(edge_emu - slide_emu) > SlideOverflowTolerance
    THEN EmuToHundredths(edge_emu - slide_emu)
    ELSE None

\* <<slide_overflow_right, slide_overflow_bottom>>
_calculate_slide_overflow(left_emu, top_emu, width_emu, height_emu, slide_width_emu, slide_height_emu) ==
    IF slide_width_emu = None \/ slide_height_emu = None THEN <<None, None>>
    ELSE << EdgeOverflow(left_emu + width_emu, slide_width_emu),
            EdgeOverflow(top_emu + height_emu, slide_height_emu) >>

BulletWarning == "manual_bullet_symbol: use proper bullet formatting"

\* the warnings _detect_bullet_issues appends
_detect_bullet_issues(shape) ==
    IF ~shape.has_text_frame THEN <<>>
    ELSE IF \E i \in 1..Len(shape.paragraphs) : StartsWithBullet(shape.paragraphs[i])
    THEN <<BulletWarning>>
    ELSE <<>>

\* the marker of a call that ended in an exception
Raised == [raised |-> TRUE]

\* ShapeData.__init__ as its two callers use it, with the absolute position and
\* the slide given: the object, or Raised when the overflow estimate raises
ShapeData(shape, absolute_left, absolute_top, slide) ==
    LET left_emu == absolute_left
        top_emu == absolute_top
        width == EmuToHundredths(shape.width)
        height == EmuToHundredths(shape.height)
        frame == _estimate_frame_overflow(shape, width, height)
        slide_overflow == _calculate_slide_overflow(left_emu, top_emu, shape.width, shape.height,
                                                    slide.slide_width, slide.slide_height)
    IN  IF frame.raised THEN Raised
        ELSE [ raised |-> FALSE,
               shape |-> shape,
               shape_id |-> "",
               placeholder_type |-> shape.placeholder_type,
               default_font_size |-> IF shape.placeholder_type # NoneStr
                                     THEN shape.layout_sz ELSE None,
               left |-> EmuToHundredths(left_emu),
               top |-> EmuToHundredths(top_emu),
               width |-> width,
               height |-> height,
               left_emu |-> left_emu,
               top_emu |-> top_emu,
               width_emu |-> shape.width,
               height_emu |-> shape.height,
               frame_overflow_bottom |-> frame.frame_overflow_bottom,
               slide_overflow_right |-> slide_overflow[1],
               slide_overflow_bottom |-> slide_overflow[2],
               overlapping_shapes |-> <<>>,
               warnings |-> _detect_bullet_issues(shape) ]

\* has_any_issues without the warnings
has_any_issues_but_warnings(s) ==
    \/ s.frame_overflow_bottom # None
    \/ s.slide_overflow_right # None
    \/ s.slide_overflow_bottom # None
    \/ Len(s.overlapping_shapes) > 0

has_any_issues(s) ==
    \/ s.frame_overflow_bottom # None
    \/ s.slide_overflow_right # None
    \/ s.slide_overflow_bottom # None
    \/ Len(s.overlapping_shapes) > 0
    \/ Len(s.warnings) > 0

---------------------------------------------------------------------------
(* Dictionaries keep insertion order: a sequence of <<key, value>> pairs   *)

DictKeys(d) == [i \in 1..Len(d) |-> d[i][1]]

DictHas(d, k) == \E i \in 1..Len(d) : d[i][1] = k

DictGet(d, k) == d[CHOOSE i \in 1..Len(d) : d[i][1] = k][2]

\* d[k] = v: an existing key keeps its place
DictSet(d, k, v) ==
    IF DictHas(d, k)
    THEN [i \in 1..Len(d) |-> IF d[i][1] = k THEN <<k, v>> ELSE d[i]]
    ELSE Append(d, <<k, v>>)

---------------------------------------------------------------------------
(* Layout Sorter *)

\* the order of the sort key: "top_left" is (s.top, s.left), "left" is s.left
KeyLessEq(key, a, b) ==
    IF key = "top_left" THEN a.top < b.top \/ (a.top = b.top /\ a.left <= b.left)
    ELSE a.left <= b.left

\* insert x into the sorted list after every element that is not greater
RECURSIVE InsertSorted(_, _, _)
InsertSorted(x, sorted, key) ==
    IF sorted = <<>> THEN <<x>>
    ELSE IF KeyLessEq(key, sorted[Len(sorted)], x) THEN Append(sorted, x)
    ELSE Append(InsertSorted(x, SubSeq(sorted, 1, Len(sorted) - 1), key), sorted[Len(sorted)])

\* sorted(list, key=...): stable
RECURSIVE Sorted(_, _)
Sorted(list, key) ==
    IF list = <<>> THEN <<>>
    ELSE InsertSorted(list[Len(list)], Sorted(SubSeq(list, 1, Len(list) - 1), key), key)

\* a shape joins the row when its top is within this many hundredths of the row's
RowTolerance == 50

\* SweepRows measuring each shape against the shape before it
RECURSIVE SweepRowsChained(_, _, _, _)
SweepRowsChained(rest, row, row_top, done) ==
    IF rest = <<>> THEN done \o Sorted(row, "left")
    ELSE IF Abs(Head(rest).top - row_top) <= RowTolerance
    THEN SweepRowsChained(Tail(rest), Append(row, Head(rest)), Head(rest).top, done)
    ELSE SweepRowsChained(Tail(rest), <<Head(rest)>>, Head(rest).top, done \o Sorted(row, "left"))

RECURSIVE SweepRows(_, _, _, _)
SweepRows(rest, row, row_top, done) ==
    IF rest = <<>> THEN done \o Sorted(row, "left")
    ELSE IF Abs(Head(rest).top - row_top) <= RowTolerance
    THEN SweepRows(Tail(rest), Append(row, Head(rest)), row_top, done)
    ELSE SweepRows(Tail(rest), <<Head(rest)>>, Head(rest).top, done \o Sorted(row, "left"))

\* sort_shapes_by_position without the rows
sort_shapes_by_top_and_left(list) ==
    IF list = <<>> THEN list
    ELSE Sorted(list, "top_left")

sort_shapes_by_position(list) ==
    IF list = <<>> THEN list
    ELSE LET by_top == Sorted(list, "top_left")
         IN  SweepRows(Tail(by_top), <<by_top[1]>>, by_top[1].top, <<>>)

---------------------------------------------------------------------------
(* Overlap Detector *)

\* tolerance of calculate_overlap, hundredths of an inch
OverlapTolerance == 5

\* calculate_overlap with >= in place of >
calculate_overlap_inclusive(rect1, rect2, tolerance) ==
    LET overlap_width == Min(rect1[1] + rect1[3], rect2[1] + rect2[3]) - Max(rect1[1], rect2[1])
        overlap_height == Min(rect1[2] + rect1[4], rect2[2] + rect2[4]) - Max(rect1[2], rect2[2])
    IN  IF overlap_width >= tolerance /\ overlap_height >= tolerance
        THEN <<TRUE, RoundDiv(overlap_width * overlap_height, 100)>>
        ELSE <<FALSE, 0>>

\* <<overlaps, overlap_area>>; a rect is <<left, top, width, height>> in hundredths,
\* the area in hundredths of a square inch
calculate_overlap(rect1, rect2, tolerance) ==
    LET overlap_width == Min(rect1[1] + rect1[3], rect2[1] + rect2[3]) - Max(rect1[1], rect2[1])
        overlap_height == Min(rect1[2] + rect1[4], rect2[2] + rect2[4]) - Max(rect1[2], rect2[2])
    IN  IF overlap_width > tolerance /\ overlap_height > tolerance
        THEN <<TRUE, RoundDiv(overlap_width * overlap_height, 100)>>
        ELSE <<FALSE, 0>>

RectOf(s) == <<s.left, s.top, s.width, s.height>>

\* OverlapPair that records the overlap in the first shape alone
OverlapPairOneWay(list, i, j) ==
    LET found == calculate_overlap(RectOf(list[i]), RectOf(list[j]), OverlapTolerance)
    IN  IF found[1]
        THEN [list EXCEPT ![i].overlapping_shapes = DictSet(@, list[j].shape_id, found[2])]
        ELSE list

\* the body of the double loop of detect_overlaps for the pair i < j (1-based)
OverlapPair(list, i, j) ==
    LET found == calculate_overlap(RectOf(list[i]), RectOf(list[j]), OverlapTolerance)
    IN  IF found[1]
        THEN [list EXCEPT
                ![i].overlapping_shapes = DictSet(@, list[j].shape_id, found[2]),
                ![j].overlapping_shapes = DictSet(@, list[i].shape_id, found[2])]
        ELSE list

RECURSIVE OverlapLoop(_, _, _)
OverlapLoop(list, i, j) ==
    IF i > Len(list) THEN list
    ELSE IF j > Len(list) THEN OverlapLoop(list, i + 1, i + 2)
    ELSE OverlapLoop(OverlapPair(list, i, j), i, j + 1)

detect_overlaps(list) == OverlapLoop(list, 1, 2)

---------------------------------------------------------------------------
(* Inventory Assembler *)

ShapeKey(idx) == <<"shape", idx>>

SlideKey(idx) == <<"slide", idx>>

\* AssignIds numbering from 1
AssignIdsFromOne(sorted_shapes) ==
    [i \in 1..Len(sorted_shapes) |-> [sorted_shapes[i] EXCEPT !.shape_id = ShapeKey(i)]]

\* for idx, shape_data in enumerate(sorted_shapes): shape_data.shape_id = f"shape-{idx}"
AssignIds(sorted_shapes) ==
    [i \in 1..Len(sorted_shapes) |-> [sorted_shapes[i] EXCEPT !.shape_id = ShapeKey(i - 1)]]

\* DictOfShapes with a counter that is not reset between two calls: the keys
\* of a later call go on from those of the call before
RECURSIVE DictOfShapesCarried(_, _)
DictOfShapesCarried(list, d) ==
    IF list = <<>> THEN d
    ELSE DictOfShapesCarried(Tail(list),
            DictSet(d, IF result.kind = "none" THEN Head(list).shape_id
                       ELSE ShapeKey(Head(list).shape_id[2] + 1), Head(list)))

\* {shape_data.shape_id: shape_data for shape_data in sorted_shapes}
RECURSIVE DictOfShapes(_, _)
DictOfShapes(list, d) ==
    IF list = <<>> THEN d
    ELSE DictOfShapes(Tail(list), DictSet(d, Head(list).shape_id, Head(list)))

\* the shapes of one slide with their absolute positions
SlideShapesWithPositions(slide) ==
    Flatten([i \in 1..Len(slide.shapes) |->
        collect_shapes_with_absolute_positions(slide.shapes[i], 0, 0)])

\* [ShapeData(swp.shape, swp.absolute_left, swp.absolute_top, slide) for swp in ...]
ShapeDataList(prs, shapes_with_positions) ==
    [i \in 1..Len(shapes_with_positions) |->
        ShapeData(shapes_with_positions[i].shape,
                  shapes_with_positions[i].absolute_left,
                  shapes_with_positions[i].absolute_top,
                  prs)]

\* if len(sorted_shapes) > 1: detect_overlaps(sorted_shapes)
WithOverlaps(sorted_shapes) ==
    IF Len(sorted_shapes) > 1 THEN detect_overlaps(sorted_shapes) ELSE sorted_shapes

\* if issues_only: sorted_shapes = [sd for sd in sorted_shapes if sd.has_any_issues]
FilterIssues(issues_only, sorted_shapes) ==
    IF issues_only THEN SelectSeq(sorted_shapes, has_any_issues) ELSE sorted_shapes

\* if not sorted_shapes: continue; inventory[f"slide-{slide_idx}"] = {...}
StoreSlide(slide_idx, inventory, sorted_shapes) ==
    IF sorted_shapes = <<>> THEN [raised |-> FALSE, inventory |-> inventory]
    ELSE [raised |-> FALSE,
          inventory |-> DictSet(inventory, SlideKey(slide_idx), DictOfShapes(sorted_shapes, <<>>))]

\* the loop body from the list of ShapeData on: Raised when a construction raised
AssembleSlide(slide_idx, issues_only, inventory, shape_data_list) ==
    IF \E i \in 1..Len(shape_data_list) : shape_data_list[i].raised THEN Raised
    ELSE StoreSlide(slide_idx, inventory,
            FilterIssues(issues_only,
                WithOverlaps(AssignIds(sort_shapes_by_position(shape_data_list)))))

\* the loop body from the collected shapes on: if not shapes_with_positions: continue
CollectedSlide(prs, slide_idx, issues_only, inventory, shapes_with_positions) ==
    IF shapes_with_positions = <<>> THEN [raised |-> FALSE, inventory |-> inventory]
    ELSE AssembleSlide(slide_idx, issues_only, inventory, ShapeDataList(prs, shapes_with_positions))

\* the body of the loop over the slides: the inventory after slide slide_idx
\* (0-based), or Raised
ExtractSlide(prs, slide_idx, issues_only, inventory) ==
    CollectedSlide(prs, slide_idx, issues_only, inventory,
                   SlideShapesWithPositions(prs.slides[slide_idx + 1]))

RECURSIVE ExtractSlides(_, _, _, _)

\* NextSlide with the slide key counting the slides kept so far
NextSlideRenumbered(prs, slide_idx, issues_only, step) ==
    IF step.raised THEN Raised
    ELSE ExtractSlides(prs, slide_idx + 1, issues_only,
            [k \in 1..Len(step.inventory) |-> <<SlideKey(k - 1), step.inventory[k][2]>>])

\* the loop goes on with the next slide unless the body raised
NextSlide(prs, slide_idx, issues_only, step) ==
    IF step.raised THEN Raised
    ELSE ExtractSlides(prs, slide_idx + 1, issues_only, step.inventory)

ExtractSlides(prs, slide_idx, issues_only, inventory) ==
    IF slide_idx >= Len(prs.slides) THEN [raised |-> FALSE, inventory |-> inventory]
    ELSE NextSlide(prs, slide_idx, issues_only, ExtractSlide(prs, slide_idx, issues_only, inventory))

\* extract_text_inventory that answers a file it cannot parse with no slides
extract_text_inventory_lenient(file, issues_only) ==
    IF ~file.parseable THEN [raised |-> FALSE, inventory |-> <<>>]
    ELSE ExtractSlides(file, 0, issues_only, <<>>)

\* extract_text_inventory(pptx_path, prs=None, issues_only): Presentation(...)
\* raises on a file it cannot parse
extract_text_inventory(file, issues_only) ==
    IF ~file.parseable THEN Raised
    ELSE ExtractSlides(file, 0, issues_only, <<>>)

---------------------------------------------------------------------------
(* Serialization *)

\* the string of a paragraph: its words, "\n" between two lines
RECURSIVE JoinLines(_)
JoinLines(lines) ==
    IF lines = <<>> THEN <<>>
    ELSE IF Len(lines) = 1 THEN lines[1]
    ELSE lines[1] \o <<"\n">> \o JoinLines(Tail(lines))

IsSpace(w) == w = "" \/ w = "\n"

RECURSIVE LStrip(_)
LStrip(ws) == IF ws # <<>> /\ IsSpace(Head(ws)) THEN LStrip(Tail(ws)) ELSE ws

RECURSIVE RStrip(_)
RStrip(ws) ==
    IF ws # <<>> /\ IsSpace(ws[Len(ws)]) THEN RStrip(SubSeq(ws, 1, Len(ws) - 1)) ELSE ws

\* text.strip()
Strip(ws) == RStrip(LStrip(ws))

\* the key is left out when the value is absent
Optional(present, key, value) == IF present THEN key :> value ELSE <<>>

\* ParagraphData(paragraph).to_dict()
ParagraphToDict(paragraph) ==
    ("text" :> Strip(JoinLines(paragraph.lines)))
    @@ Optional(PtOrZero(paragraph.space_before) # 0, "space_before", paragraph.space_before)
    @@ Optional(PtOrZero(paragraph.space_after) # 0, "space_after", paragraph.space_after)
    @@ Optional(HasFontSize(paragraph), "font_size", PtOrZero(paragraph.font_size))
    @@ Optional(paragraph.font_size_tenths # 0, "font_size_tenths", paragraph.font_size_tenths)
    @@ Optional(paragraph.line_spacing # None, "line_spacing", paragraph.line_spacing)

\* ShapeData.paragraphs: the paragraphs that have text
ShapeParagraphs(s) ==
    IF ~s.shape.has_text_frame THEN <<>>
    ELSE SelectSeq(s.shape.paragraphs, ParagraphHasText)

SlideOverflowDict(s) ==
    Optional(s.slide_overflow_right # None, "overflow_right", s.slide_overflow_right)
    @@ Optional(s.slide_overflow_bottom # None, "overflow_bottom", s.slide_overflow_bottom)

OverflowDict(s) ==
    Optional(s.frame_overflow_bottom # None, "frame", [overflow_bottom |-> s.frame_overflow_bottom])
    @@ Optional(s.slide_overflow_right # None \/ s.slide_overflow_bottom # None,
                "slide", SlideOverflowDict(s))

\* ShapeData.to_dict()
to_dict(s) ==
    [left |-> s.left, top |-> s.top, width |-> s.width, height |-> s.height]
    @@ Optional(s.placeholder_type # NoneStr, "placeholder_type", s.placeholder_type)
    @@ Optional(PtOrZero(s.default_font_size) # 0, "default_font_size", s.default_font_size)
    @@ Optional(s.frame_overflow_bottom # None \/ s.slide_overflow_right # None
                    \/ s.slide_overflow_bottom # None,
                "overflow", OverflowDict(s))
    @@ Optional(s.overlapping_shapes # <<>>, "overlap", [overlapping_shapes |-> s.overlapping_shapes])
    @@ Optional(s.warnings # <<>>, "warnings", s.warnings)
    @@ ("paragraphs" :> [i \in 1..Len(ShapeParagraphs(s)) |-> ParagraphToDict(ShapeParagraphs(s)[i])])

\* {shape_key: shape_data.to_dict() ...} for every slide of the inventory
InventoryToDict(inventory) ==
    [i \in 1..Len(inventory) |->
        << inventory[i][1],
           [j \in 1..Len(inventory[i][2]) |->
               << inventory[i][2][j][1], to_dict(inventory[i][2][j][2]) >>] >>]

\* the dictionaries of what extract_text_inventory returned, or Raised
DictsOrRaised(extracted) ==
    IF extracted.raised THEN Raised
    ELSE [raised |-> FALSE, inventory |-> InventoryToDict(extracted.inventory)]

\* get_inventory_as_dict(pptx_path, issues_only): the dictionaries, or Raised
get_inventory_as_dict(file, issues_only) ==
    DictsOrRaised(extract_text_inventory(file, issues_only))

RECURSIVE SumShapes(_)
SumShapes(inventory) ==
    IF inventory = <<>> THEN 0 ELSE Len(Head(inventory)[2]) + SumShapes(Tail(inventory))

---------------------------------------------------------------------------
(* The documents the model is run on *)

\* x hundredths of an inch, in EMU
In(x) == x * EmuPerHundredth

Para(lines) ==
    [lines |-> lines, font_size |-> None, font_size_tenths |-> 0, line_spacing |-> None,
     space_before |-> None, space_after |-> None]

\* a shape with a text frame; geom is <<left, top, width, height>> in EMU
Leaf(paragraphs, placeholder_type, geom, measure_fails) ==
    [is_group |-> FALSE,
     shapes |-> <<>>,
     has_text_frame |-> TRUE,
     paragraphs |-> paragraphs,
     placeholder_type |-> placeholder_type,
     left |-> geom[1], top |-> geom[2], width |-> geom[3], height |-> geom[4],
     margin_top |-> DefaultMarginTopBottom, margin_bottom |-> DefaultMarginTopBottom,
     margin_left |-> DefaultMarginLeftRight, margin_right |-> DefaultMarginLeftRight,
     master_sz |-> [titleStyle |-> 44, bodyStyle |-> 18],
     layout_sz |-> None,
     measure_fails |-> measure_fails]

\* a group shape: it has shapes and no text frame
Group(left, top, children) ==
    [is_group |-> TRUE,
     shapes |-> children,
     has_text_frame |-> FALSE,
     paragraphs |-> <<>>,
     placeholder_type |-> NoneStr,
     left |-> left, top |-> top, width |-> 0, height |-> 0,
     margin_top |-> None, margin_bottom |-> None,
     margin_left |-> None, margin_right |-> None,
     master_sz |-> [titleStyle |-> 44, bodyStyle |-> 18],
     layout_sz |-> None,
     measure_fails |-> FALSE]

TextEmpty == << Para(<< <<"">> >>) >>

TextBlank == << Para(<< <<"", "">> >>) >>

TextPlain == << Para(<< <<"Hi">> >>) >>

TextBullet == << Para(<< <<"(bullet)", "Hi">> >>) >>

\* ten long words: four wrapped lines in a box three inches wide
TextLong == << Para(<< [i \in 1..10 |-> "Longword"] >>) >>

GeomA == <<In(100), In(100), In(300), In(100)>>

\* past the right edge of the slide by one inch
GeomC == <<In(800), In(400), In(300), In(100)>>

Leaves ==
    {Leaf(t, NoneStr, GeomA, FALSE) : t \in {TextBlank, TextPlain, TextBullet, TextLong}}
    \cup {Leaf(TextPlain, NoneStr, GeomC, FALSE)}
    \cup {Leaf(TextPlain, NoneStr, GeomA, TRUE)}

\* deepest nesting of groups
MaxDepth == 2

\* most shapes at the top level of a slide
MaxTop == 2

\* the children under depth groups, each group one inch right of and half
\* an inch below its parent
RECURSIVE Nested(_, _)
Nested(depth, children) ==
    IF depth = 1 THEN Group(In(100), In(50), children)
    ELSE Group(In(100), In(50), <<Nested(depth - 1, children)>>)

Groups ==
    {Nested(d, <<Leaf(TextEmpty, NoneStr, GeomA, FALSE), Leaf(TextPlain, NoneStr, GeomA, FALSE)>>) :
        d \in 1..MaxDepth}

Nodes == Leaves \cup Groups

SeqsUpTo(S, n) == UNION {[1..k -> S] : k \in 0..n}

SlideWidth == In(1000)

SlideHeight == In(750)

File(exists, is_pptx, parseable, slides) ==
    [exists |-> exists, is_pptx |-> is_pptx, parseable |-> parseable,
     slide_width |-> SlideWidth, slide_height |-> SlideHeight,
     slides |-> slides]

Slide(top_shapes) == [shapes |-> top_shapes]

\* most slides of a document
MaxSlides == 3

\* slides of three kinds: nothing to list, a shape without an issue, a shape
\* that runs past the slide
SlideKinds ==
    {Slide(<<Leaf(TextBlank, NoneStr, GeomA, FALSE)>>),
     Slide(<<Leaf(TextPlain, NoneStr, GeomA, FALSE)>>),
     Slide(<<Leaf(TextPlain, NoneStr, GeomC, FALSE)>>)}

Documents ==
    {File(TRUE, TRUE, TRUE, <<Slide(ss)>>) : ss \in SeqsUpTo(Nodes, MaxTop)}
    \cup {File(TRUE, TRUE, TRUE, slides) : slides \in SeqsUpTo(SlideKinds, MaxSlides) \ SeqsUpTo(SlideKinds, 1)}
    \cup {File(FALSE, TRUE, FALSE, <<>>), File(TRUE, FALSE, FALSE, <<>>), File(TRUE, TRUE, FALSE, <<>>)}

---------------------------------------------------------------------------
(* The extract_text_inventory tool *)

\* the history of a flag after one more inventory: its last two
LastTwo(history, inventory) ==
    IF history = <<>> THEN <<inventory>> ELSE <<history[Len(history)], inventory>>

\* handle_extract_inventory under call_tool's except; got is what
\* get_inventory_as_dict returns or raises, read only for a .pptx file that exists
handle_extract_inventory(got, issues_only, output_path) ==
    IF ~doc.exists
    THEN /\ result' = [kind |-> "error", text |-> "File not found"]
         /\ UNCHANGED <<results, outfile>>
    ELSE IF ~doc.is_pptx
    THEN /\ result' = [kind |-> "error", text |-> "Input must be a PowerPoint file (.pptx)"]
         /\ UNCHANGED <<results, outfile>>
    ELSE IF got.raised
    THEN /\ result' = [kind |-> "error", text |-> "exception"]
         /\ UNCHANGED <<results, outfile>>
    ELSE IF output_path
    THEN /\ outfile' = <<got.inventory>>
         /\ result' = [kind |-> "saved",
                       total_slides |-> Len(got.inventory),
                       total_shapes |-> SumShapes(got.inventory)]
         /\ results' = [results EXCEPT ![issues_only] = LastTwo(@, got.inventory)]
    ELSE /\ result' = [kind |-> "json", inventory |-> got.inventory]
         /\ results' = [results EXCEPT ![issues_only] = LastTwo(@, got.inventory)]
         /\ UNCHANGED outfile

\* call_tool("extract_text_inventory", ...)
CallExtractTextInventory(issues_only, output_path) ==
    /\ handle_extract_inventory(get_inventory_as_dict(doc, issues_only), issues_only, output_path)
    /\ UNCHANGED <<doc, sd_in, sd, shapes, pc, args, presentation>>

Init ==
    /\ doc \in Documents
    /\ result = [kind |-> "none"]
    /\ results = [io \in BOOLEAN |-> <<>>]
    /\ outfile = <<>>
    /\ sd_in = <<>>
    /\ sd = <<>>
    /\ shapes = <<>>
    /\ pc = "start"
    /\ args = <<>>
    /\ presentation = <<>>

Next ==
    \E issues_only \in BOOLEAN, output_path \in BOOLEAN :
        CallExtractTextInventory(issues_only, output_path)

Spec == Init /\ [][Next]_vars

---------------------------------------------------------------------------
(* ShapeData(...) on its own: one construction from the arguments sd_in *)

NoDocument == File(FALSE, FALSE, FALSE, <<>>)

ConstructShapeData ==
    /\ pc = "start"
    /\ sd' = <<ShapeData(sd_in.shape, sd_in.absolute_left, sd_in.absolute_top, sd_in.slide)>>
    /\ pc' = "done"
    /\ UNCHANGED <<doc, result, results, outfile, sd_in, shapes, args, presentation>>

\* how far, in EMU, the right or bottom edge of the shape lies past the slide's
EdgeExcesses ==
    {-EmuPerHundredth, 0, 1, 4572, EmuPerHundredth, 11000, 13715, 13716, 13717,
     2 * EmuPerHundredth, 10 * EmuPerHundredth, EmuPerInch, 4 * EmuPerInch}

\* the slide sizes get_slide_dimensions reports: those of the presentation, or
\* None, None
SlideSizes == {[slide_width |-> SlideWidth, slide_height |-> SlideHeight],
               [slide_width |-> None, slide_height |-> None]}

InitSlideOverflow ==
    /\ \E right \in EdgeExcesses, bottom \in EdgeExcesses, slide \in SlideSizes :
          sd_in = [shape |-> Leaf(TextPlain, NoneStr, <<0, 0, In(300), In(100)>>, FALSE),
                   absolute_left |-> SlideWidth - In(300) + right,
                   absolute_top |-> SlideHeight - In(100) + bottom,
                   slide |-> slide]
    /\ doc = NoDocument
    /\ result = [kind |-> "none"]
    /\ results = [io \in BOOLEAN |-> <<>>]
    /\ outfile = <<>>
    /\ sd = <<>>
    /\ shapes = <<>>
    /\ pc = "start"
    /\ args = <<>>
    /\ presentation = <<>>

SpecSlideOverflow == InitSlideOverflow /\ [][ConstructShapeData]_vars

\* a paragraph of n words at a font size, None for the default
ParaOf(n, font_size) == [Para(<< [i \in 1..n |-> "Word"] >>) EXCEPT !.font_size = font_size]

\* the text frames of the overflow estimate: one to three paragraphs
FrameTexts ==
    {<<ParaOf(n, fs)>> : n \in {1, 12}, fs \in {None, 24}}
    \cup {<<ParaOf(1, None), Para(<< <<"">> >>), [ParaOf(1, None) EXCEPT !.space_before = 6]>>,
          <<[ParaOf(1, None) EXCEPT !.space_before = 6, !.space_after = 3]>>,
          <<[ParaOf(2, None) EXCEPT !.line_spacing = 20]>>}

\* box heights and widths in hundredths of an inch
BoxHeights == {10, 20, 30, 31, 35, 50, 100}

BoxWidths == {20, 100}

\* top margins in EMU: 0, the default, five pixels
TopMargins == {0, DefaultMarginTopBottom, 5 * EmuPerPixel}

InitFrameOverflow ==
    /\ \E text \in FrameTexts, w \in BoxWidths, h \in BoxHeights, mt \in TopMargins :
          sd_in = [shape |-> [Leaf(text, NoneStr, <<0, 0, In(w), In(h)>>, FALSE) EXCEPT !.margin_top = mt],
                   absolute_left |-> In(100),
                   absolute_top |-> In(100),
                   slide |-> [slide_width |-> SlideWidth, slide_height |-> SlideHeight]]
    /\ doc = NoDocument
    /\ result = [kind |-> "none"]
    /\ results = [io \in BOOLEAN |-> <<>>]
    /\ outfile = <<>>
    /\ sd = <<>>
    /\ shapes = <<>>
    /\ pc = "start"
    /\ args = <<>>
    /\ presentation = <<>>

SpecFrameOverflow == InitFrameOverflow /\ [][ConstructShapeData]_vars

---------------------------------------------------------------------------
(* detect_overlaps(...) on its own: one call on the numbered shapes of a slide *)

DetectOverlaps ==
    /\ pc = "start"
    /\ shapes' = detect_overlaps(shapes)
    /\ pc' = "done"
    /\ UNCHANGED <<doc, result, results, outfile, sd_in, sd, args, presentation>>

\* most shapes on the slide handed to detect_overlaps
MaxRects == 3

\* bounding boxes <<left, top, width, height>> in hundredths of an inch
Rects ==
    {<<l, t, 100, 100>> : l \in {0, 94, 95, 96}, t \in {0, 95}}
    \cup {<<0, 0, 200, 200>>, <<100, 100, 200, 200>>}

\* the fields of a ShapeData that detect_overlaps reads and writes
Box(rect) ==
    [shape_id |-> "", left |-> rect[1], top |-> rect[2], width |-> rect[3], height |-> rect[4],
     overlapping_shapes |-> <<>>]

InitOverlap ==
    /\ \E rects \in SeqsUpTo(Rects, MaxRects) :
          shapes = AssignIds([i \in 1..Len(rects) |-> Box(rects[i])])
    /\ doc = NoDocument
    /\ result = [kind |-> "none"]
    /\ results = [io \in BOOLEAN |-> <<>>]
    /\ outfile = <<>>
    /\ sd_in = <<>>
    /\ sd = <<>>
    /\ pc = "start"
    /\ args = <<>>
    /\ presentation = <<>>

SpecOverlap == InitOverlap /\ [][DetectOverlaps]_vars

---------------------------------------------------------------------------
(* Properties of the extract_text_inventory tool (specification Spec) *)

\* the leaves under a node with the number of groups around each
RECURSIVE LeavesUnder(_, _)
LeavesUnder(node, depth) ==
    IF IsGroup(node)
    THEN Flatten([i \in 1..Len(node.shapes) |-> LeavesUnder(node.shapes[i], depth + 1)])
    ELSE << [leaf |-> node, depth |-> depth] >>

\* the leaves of slide k of the document
SlideLeaves(k) ==
    Flatten([i \in 1..Len(doc.slides[k].shapes) |-> LeavesUnder(doc.slides[k].shapes[i], 0)])

\* the inventories returned so far
Returned == UNION {{results[io][n] : n \in 1..Len(results[io])} : io \in BOOLEAN}

\* the shape records of an inventory, over all its slides
Records(inventory) ==
    Flatten([k \in 1..Len(inventory) |->
        [j \in 1..Len(inventory[k][2]) |-> inventory[k][2][j][2]]])

\* C1: in every inventory returned, with issues_only or without, every shape
\* record has text: no shape whose text is empty or only whitespace is listed,
\* whatever the depth of the groups around it.
C1_NoShapeWithoutText ==
    \A inventory \in Returned :
        \A r \in 1..Len(Records(inventory)) :
            /\ Records(inventory)[r].paragraphs # <<>>
            /\ \A p \in 1..Len(Records(inventory)[r].paragraphs) :
                  Records(inventory)[r].paragraphs[p].text # <<>>

\* a slide with a shape without text inside two groups beside shapes that are
\* listed, extracted both ways
C1_Witness ==
    /\ results[FALSE] # <<>> /\ results[TRUE] # <<>>
    /\ results[FALSE][1] # <<>>
    /\ \E i \in 1..Len(SlideLeaves(1)) :
          /\ SlideLeaves(1)[i].depth = 2
          /\ ~FrameHasText(SlideLeaves(1)[i].leaf)
    /\ \E i \in 1..Len(SlideLeaves(1)) :
          /\ SlideLeaves(1)[i].depth = 0
          /\ ~FrameHasText(SlideLeaves(1)[i].leaf)

\* the ShapeData of slide k (1-based) in the order of the Layout Sorter
ReadingOrder(k) ==
    sort_shapes_by_position(ShapeDataList(doc, SlideShapesWithPositions(doc.slides[k])))

\* C2: in a full extraction the keys of a slide with n qualifying shapes are
\* shape-0 .. shape-(n-1) in this order, no key occurs twice, and the record
\* under shape-i is the shape at position i of the Layout Sorter's output.
C2_IdsFollowReadingOrder ==
    \A n \in 1..Len(results[FALSE]) :
        LET inventory == results[FALSE][n]
        IN  \A k \in 1..Len(inventory) :
                LET entries == inventory[k][2]
                    expected == ReadingOrder(inventory[k][1][2] + 1)
                IN  /\ Len(entries) = Len(SlideShapesWithPositions(doc.slides[inventory[k][1][2] + 1]))
                    /\ \A i \in 1..Len(entries) :
                          /\ entries[i][1] = ShapeKey(i - 1)
                          /\ \A j \in 1..Len(entries) : i # j => entries[i][1] # entries[j][1]
                          /\ entries[i][2].left = expected[i].left
                          /\ entries[i][2].top = expected[i].top
                          /\ entries[i][2].paragraphs = to_dict(expected[i]).paragraphs

\* a full extraction of a slide whose reading order is not its document order
C2_Witness ==
    /\ results[FALSE] # <<>>
    /\ results[FALSE][1] # <<>>
    /\ Len(results[FALSE][1][1][2]) >= 2
    /\ LET unsorted == ShapeDataList(doc, SlideShapesWithPositions(doc.slides[1]))
       IN  \E i \in 1..Len(unsorted) :
              <<unsorted[i].left, unsorted[i].top>> # <<ReadingOrder(1)[i].left, ReadingOrder(1)[i].top>>

---------------------------------------------------------------------------
(* Properties of detect_overlaps (specification SpecOverlap) *)

\* the hundredths of an inch two intervals share, counted one by one
Shared(start1, length1, start2, length2) ==
    Cardinality((start1..(start1 + length1 - 1)) \cap (start2..(start2 + length2 - 1)))

SharedWidth(a, b) == Shared(a.left, a.width, b.left, b.width)

SharedHeight(a, b) == Shared(a.top, a.height, b.top, b.height)

\* shape i lists shape j as overlapping
Lists(i, j) == DictHas(shapes[i].overlapping_shapes, shapes[j].shape_id)

ListedArea(i, j) == DictGet(shapes[i].overlapping_shapes, shapes[j].shape_id)

\* C4: after detect_overlaps, shape A lists shape B exactly when B lists A,
\* and both entries carry the same area.
C4_OverlapSymmetric ==
    pc = "done" =>
        \A i \in 1..Len(shapes) : \A j \in 1..Len(shapes) :
            /\ Lists(i, j) <=> Lists(j, i)
            /\ Lists(i, j) => ListedArea(i, j) = ListedArea(j, i)

\* three shapes of which two overlap each other and the third overlaps none
C4_Witness ==
    /\ pc = "done"
    /\ Len(shapes) = 3
    /\ Lists(1, 2) /\ Lists(2, 1)
    /\ ~Lists(1, 3) /\ ~Lists(2, 3)

---------------------------------------------------------------------------
(* Properties of ShapeData (specifications SpecSlideOverflow, SpecFrameOverflow) *)

\* how far the right and the bottom edge of the shape lie past the slide's, in EMU
RightExcess == sd_in.absolute_left + sd_in.shape.width - sd_in.slide.slide_width

BottomExcess == sd_in.absolute_top + sd_in.shape.height - sd_in.slide.slide_height

\* the tolerance taken on the excess itself: a field for every excess beyond 0.01 inch
EdgeAsClaimed(excess, field) ==
    /\ excess > EmuPerHundredth => (field # None /\ Abs(field * EmuPerHundredth - excess) <= EmuPerHundredth)
    /\ excess <= EmuPerHundredth => field = None

\* C6 as stated: on a slide of known size, each edge's overflow field is there,
\* within 0.01 inch of the excess, exactly when the excess is beyond 0.01 inch.
C6_AsStated ==
    (pc = "done" /\ sd_in.slide.slide_width # None) =>
        /\ EdgeAsClaimed(RightExcess, sd[1].slide_overflow_right)
        /\ EdgeAsClaimed(BottomExcess, sd[1].slide_overflow_bottom)

\* the field is there when the excess is above 0.015 inch, and is the excess
\* rounded to 2 decimals; it is not there when the excess is below 0.015 inch
EdgeRounded(excess, field) ==
    /\ 2 * excess > 3 * EmuPerHundredth =>
          (field # None /\ 2 * Abs(field * EmuPerHundredth - excess) <= EmuPerHundredth)
    /\ 2 * excess < 3 * EmuPerHundredth => field = None

\* C6: on a slide of known size, each edge's overflow field is there exactly
\* when the excess rounded to 2 decimals is more than 0.01 inch, that is for
\* every excess above 0.015 inch and for none below, and it is the rounded
\* excess; the field of one edge does not depend on the other edge.
C6_SlideOverflowOfRoundedExcess ==
    (pc = "done" /\ sd_in.slide.slide_width # None) =>
        /\ EdgeRounded(RightExcess, sd[1].slide_overflow_right)
        /\ EdgeRounded(BottomExcess, sd[1].slide_overflow_bottom)

\* a shape wholly past the right edge by one inch and past the bottom edge by
\* 0.012 inch: the first is recorded, the second is not
C6_Witness ==
    /\ pc = "done"
    /\ sd_in.slide.slide_width # None
    /\ RightExcess = 4 * EmuPerInch /\ sd[1].slide_overflow_right = 400
    /\ BottomExcess = 11000 /\ sd[1].slide_overflow_bottom = None

\* EMU in a third of a pixel
EmuPerThird == EmuPerInch \div ThirdsPerInch

\* the height of the wrapped text less the box height without its margins, in EMU
FrameExcess ==
    LET shape == sd_in.shape
        width == EmuToHundredths(shape.width)
        height == EmuToHundredths(shape.height)
        usable_width_px == _get_usable_dimensions(width, height, shape)[1]
    IN  TotalHeight(shape.paragraphs, 0, usable_width_px, _get_default_font_size(shape)) * EmuPerThird
        - (height * EmuPerHundredth
           - MarginOr(shape.margin_top, DefaultMarginTopBottom)
           - MarginOr(shape.margin_bottom, DefaultMarginTopBottom))

\* C7: for a shape with text, frame.overflow_bottom is there, and is the excess
\* rounded to 2 decimals, whenever the wrapped text is higher than the usable
\* height by more than 0.05 inch, and is not there otherwise, for every box size.
C7_FrameOverflowBeyondTolerance ==
    pc = "done" =>
        /\ FrameExcess > 5 * EmuPerHundredth =>
              /\ sd[1].frame_overflow_bottom # None
              /\ sd[1].frame_overflow_bottom = RoundDiv(FrameExcess, EmuPerHundredth)
        /\ FrameExcess <= 5 * EmuPerHundredth => sd[1].frame_overflow_bottom = None

---------------------------------------------------------------------------
(* Properties of issues_only and of failures (specification Spec) *)

\* the record shows an overflow, an overlap or a warning
Flagged(record) ==
    "overflow" \in DOMAIN record \/ "overlap" \in DOMAIN record \/ "warnings" \in DOMAIN record

\* the entries <<slide key, shape key, record>> of an inventory
Entries(inventory) ==
    UNION {{<<inventory[k][1], inventory[k][2][j][1], inventory[k][2][j][2]>> :
                j \in 1..Len(inventory[k][2])} : k \in 1..Len(inventory)}

\* the issues_only inventory is the flagged part of the full one
FlaggedPart(part, full) ==
    /\ Entries(part) = {e \in Entries(full) : Flagged(e[3])}
    /\ \A k \in 1..Len(part) : part[k][2] # <<>>
    /\ \A k \in 1..Len(part) : \A k2 \in 1..Len(part) : k # k2 => part[k][1] # part[k2][1]

Readable == doc.exists /\ doc.is_pptx /\ doc.parseable

\* C9: an exception while the frame overflow of one shape is estimated does
\* not end the extraction: the call on a readable document returns an
\* inventory, never an error.
C9_OverflowFailureIsSkipped ==
    (Readable /\ result.kind # "none") => result.kind # "error"

\* C10: when the document cannot be opened or parsed the call returns an
\* error, no inventory is returned for either flag and no file is written.
C10_UnreadableDocumentFails ==
    ~Readable =>
        /\ result.kind \in {"none", "error"}
        /\ \A io \in BOOLEAN : results[io] = <<>>
        /\ outfile = <<>>

\* a .pptx file that exists and cannot be parsed, after a call
C10_Witness ==
    /\ doc.exists /\ doc.is_pptx /\ ~doc.parseable
    /\ result.kind = "error"

---------------------------------------------------------------------------
(* Properties of the slide keys (specification Spec) *)

\* the document with slide k (1-based) alone
OnlySlide(k) == File(TRUE, TRUE, TRUE, <<doc.slides[k]>>)

\* the shape mapping of slide k extracted alone, <<>> when nothing is left
Alone(k, issues_only) ==
    LET got == get_inventory_as_dict(OnlySlide(k), issues_only).inventory
    IN  IF got = <<>> THEN <<>> ELSE got[1][2]

\* the positions 0 .. n-1 of an inventory's slide keys, in the order of the keys
KeyPositions(inventory) == [k \in 1..Len(inventory) |-> inventory[k][1][2]]

\* position i is among the keys exactly when its slide alone gives a shape,
\* which in a full extraction is when the slide has a shape with text, and
\* its key maps to the shapes the slide alone gives
PositionKept(inventory, positions, i, io, alone) ==
    /\ (\E k \in 1..Len(positions) : positions[k] = i) <=> alone # <<>>
    /\ \A k \in 1..Len(positions) : positions[k] = i => inventory[k][2] = alone
    /\ ~io => (alone # <<>> <=>
                  \E l \in 1..Len(SlideLeaves(i + 1)) : FrameHasText(SlideLeaves(i + 1)[l].leaf))

\* C11: an inventory has the key slide-i exactly for the 0-based positions i
\* of the document whose slide keeps a shape after filtering (in a full
\* extraction: a shape with text); the keys come in increasing i; a slide
\* left out does not change the keys of the slides after it; no key maps to
\* an empty shape mapping.
C11_SlideKeysArePositions ==
    \A io \in BOOLEAN : \A n \in 1..Len(results[io]) :
        LET inventory == results[io][n]
            positions == KeyPositions(inventory)
        IN  /\ \A k \in 1..Len(inventory) :
                  /\ inventory[k][1] = SlideKey(positions[k])
                  /\ positions[k] \in 0..(Len(doc.slides) - 1)
                  /\ inventory[k][2] # <<>>
                  /\ k > 1 => positions[k - 1] < positions[k]
            /\ \A i \in 0..(Len(doc.slides) - 1) : 
                  PositionKept(inventory, positions, i, io, Alone(i + 1, io))

\* three slides of which the first lists nothing: the full inventory has
\* slide-1 and slide-2, the issues_only inventory slide-2 alone
C11_Witness ==
    /\ Len(doc.slides) = 3
    /\ results[FALSE] # <<>> /\ results[TRUE] # <<>>
    /\ KeyPositions(results[FALSE][1]) = <<1, 2>>
    /\ KeyPositions(results[TRUE][1]) = <<2>>

---------------------------------------------------------------------------
(* rearrange.py: rearrange_presentation under handle_rearrange_slides.     *)
(* A presentation is its slide id list; a slide is the 0-based position    *)
(* src it had in the template, a copy of it carries the same src.          *)

\* the slide list of a template of num_slides slides
Template(num_slides) == [i \in 1..num_slides |-> [src |-> i - 1, copy |-> FALSE]]

\* the list without its element at 1-based position i
RemoveAt(list, i) == SubSeq(list, 1, i - 1) \o SubSeq(list, i + 1, Len(list))

\* list.insert(index, x) for a 0-based index within the list
InsertAt(list, index, x) == SubSeq(list, 1, index) \o <<x>> \o SubSeq(list, index + 1, Len(list))

\* the removed entry put back at to_index
PutBack(removed, to_index, sldId) ==
    IF to_index >= Len(removed) THEN Append(removed, sldId) ELSE InsertAt(removed, to_index, sldId)

_move_slide(sldIdLst, from_index, to_index) ==
    IF from_index = to_index THEN sldIdLst
    ELSE PutBack(RemoveAt(sldIdLst, from_index + 1), to_index, sldIdLst[from_index + 1])

\* add_slide appends the new slide, the shapes of the source are copied into
\* it, and it is moved from the last position to insert_index
duplicate_slide(sldIdLst, slide_index, insert_index) ==
    _move_slide(Append(sldIdLst, [src |-> sldIdLst[slide_index + 1].src, copy |-> TRUE]),
                Len(sldIdLst), insert_index)

delete_slide(sldIdLst, slide_index) == RemoveAt(sldIdLst, slide_index + 1)

\* OutOfRange that lets the index num_slides pass
OutOfRangeAbove(idx, num_slides) == idx < 0 \/ idx > num_slides

\* idx < 0 or idx >= num_slides
OutOfRange(idx, num_slides) == idx < 0 \/ idx >= num_slides

\* set(slide_sequence)
indices_to_keep(slide_sequence) == {slide_sequence[k] : k \in 1..Len(slide_sequence)}

indices_to_delete(slide_sequence, num_slides) ==
    {i \in 0..(num_slides - 1) : i \notin indices_to_keep(slide_sequence)}

\* for idx in sorted(indices_to_delete, reverse=True): delete_slide(prs, idx)
RECURSIVE DeleteDescending(_, _)
DeleteDescending(sldIdLst, to_delete) ==
    IF to_delete = {} THEN sldIdLst
    ELSE DeleteDescending(
            delete_slide(sldIdLst, CHOOSE m \in to_delete : \A i \in to_delete : i <= m),
            to_delete \ {CHOOSE m \in to_delete : \A i \in to_delete : i <= m})

\* old_to_new[old_idx]: the slides kept before old_idx
old_to_new(slide_sequence, old_idx) ==
    Cardinality({i \in 0..(old_idx - 1) : i \in indices_to_keep(slide_sequence)})

target_sequence(slide_sequence) ==
    [k \in 1..Len(slide_sequence) |-> old_to_new(slide_sequence, slide_sequence[k])]

\* Counter(target_sequence): <<idx, count>> in the order of first occurrence
RECURSIVE Counter(_, _)
Counter(sequence, counts) ==
    IF sequence = <<>> THEN counts
    ELSE Counter(Tail(sequence),
            DictSet(counts, Head(sequence),
                    IF DictHas(counts, Head(sequence)) THEN DictGet(counts, Head(sequence)) + 1 ELSE 1))

\* for _ in range(count - 1): the slide at idx + duplicates_added is duplicated at the end
RECURSIVE DuplicateTimes(_, _, _)
DuplicateTimes(state, idx, times) ==
    IF times <= 0 THEN state
    ELSE DuplicateTimes(
            [slides |-> duplicate_slide(state.slides, idx + state.duplicates_added, Len(state.slides)),
             duplicates_added |-> state.duplicates_added + 1],
            idx, times - 1)

\* for idx, count in counts.items(): if count > 1: ...
RECURSIVE DuplicateAll(_, _)
DuplicateAll(state, counts) ==
    IF counts = <<>> THEN state
    ELSE DuplicateAll(DuplicateTimes(state, Head(counts)[1], Head(counts)[2] - 1), Tail(counts))

\* handle_rearrange_slides up to the Presentation(...) of rearrange_presentation
RearrangeOpen ==
    /\ pc = "start"
    /\ IF ~args.template_exists
       THEN /\ result' = [kind |-> "error", text |-> "Template file not found"]
            /\ pc' = "done"
            /\ UNCHANGED presentation
       ELSE IF ~args.well_formed
       THEN /\ result' = [kind |-> "error", text |-> "Invalid sequence format"]
            /\ pc' = "done"
            /\ UNCHANGED presentation
       ELSE /\ presentation' = Template(args.num_slides)
            /\ pc' = "loaded"
            /\ UNCHANGED result
    /\ UNCHANGED <<doc, results, outfile, sd_in, sd, shapes, args>>

\* the validation loop: ValueError, answered by the handler with "Error: ..."
RearrangeValidate ==
    /\ pc = "loaded"
    /\ IF \E k \in 1..Len(args.slide_sequence) : OutOfRange(args.slide_sequence[k], Len(presentation))
       THEN /\ result' = [kind |-> "error", text |-> "Slide index out of range"]
            /\ pc' = "done"
       ELSE /\ pc' = "validated"
            /\ UNCHANGED result
    /\ UNCHANGED <<doc, results, outfile, sd_in, sd, shapes, args, presentation>>

RearrangeDelete ==
    /\ pc = "validated"
    /\ presentation' = DeleteDescending(presentation, indices_to_delete(args.slide_sequence, Len(presentation)))
    /\ pc' = "deleted"
    /\ UNCHANGED <<doc, result, results, outfile, sd_in, sd, shapes, args>>

RearrangeDuplicate ==
    /\ pc = "deleted"
    /\ presentation' = DuplicateAll([slides |-> presentation, duplicates_added |-> 0],
                                    Counter(target_sequence(args.slide_sequence), <<>>)).slides
    /\ pc' = "duplicated"
    /\ UNCHANGED <<doc, result, results, outfile, sd_in, sd, shapes, args>>

\* prs.save(str(output_path)) and the handler's answer
RearrangeSave ==
    /\ pc = "duplicated"
    /\ outfile' = <<presentation>>
    /\ result' = [kind |-> "success"]
    /\ pc' = "done"
    /\ UNCHANGED <<doc, results, sd_in, sd, shapes, args, presentation>>

\* most slides of a template
MaxTemplateSlides == 3

\* most indices of a slide_sequence
MaxSequence == 4

\* the calls: any sequence over -1 .. num_slides, a sequence that is no list
\* of integers, a template that does not exist
RearrangeCalls ==
    UNION {{[template_exists |-> TRUE, well_formed |-> TRUE, num_slides |-> n, slide_sequence |-> seq] :
                seq \in SeqsUpTo(-1..n, MaxSequence)} : n \in 0..MaxTemplateSlides}
    \cup {[template_exists |-> e, well_formed |-> w, num_slides |-> 2, slide_sequence |-> <<0>>] :
            e \in BOOLEAN, w \in BOOLEAN}

InitRearrange ==
    /\ args \in RearrangeCalls
    /\ doc = NoDocument
    /\ result = [kind |-> "none"]
    /\ results = [io \in BOOLEAN |-> <<>>]
    /\ outfile = <<>>
    /\ sd_in = <<>>
    /\ sd = <<>>
    /\ shapes = <<>>
    /\ presentation = <<>>
    /\ pc = "start"

NextRearrange ==
    RearrangeOpen \/ RearrangeValidate \/ RearrangeDelete \/ RearrangeDuplicate \/ RearrangeSave

SpecRearrange == InitRearrange /\ [][NextRearrange]_vars

---------------------------------------------------------------------------
(* Properties of rearrange_presentation (specification SpecRearrange) *)

\* rearrange_presentation has saved the output file
Rearranged == pc = "done" /\ result.kind = "success"

\* every index of the sequence is one of the template's
ValidSequence ==
    \A k \in 1..Len(args.slide_sequence) :
        args.slide_sequence[k] \in 0..(args.num_slides - 1)

\* how often x occurs in the sequence
Occurrences(sequence, x) == Cardinality({k \in 1..Len(sequence) : sequence[k] = x})

\* C12: after rearrange_presentation on a valid slide_sequence the slide at
\* position k of the output is template slide slide_sequence[k], the original
\* or a copy of it, for every k.
C12_OutputFollowsSequence ==
    Rearranged =>
        /\ Len(outfile[1]) = Len(args.slide_sequence)
        /\ \A k \in 1..Len(args.slide_sequence) : outfile[1][k].src = args.slide_sequence[k]

\* C13: after rearrange_presentation on a valid slide_sequence every template
\* slide i is in the output as often as i occurs in slide_sequence, and a
\* template slide left out of the sequence is not in the output.
C13_OutputCountsFollowSequence ==
    Rearranged =>
        \A i \in 0..(args.num_slides - 1) :
            Occurrences([k \in 1..Len(outfile[1]) |-> outfile[1][k].src], i)
                = Occurrences(args.slide_sequence, i)

\* C14: when an index of slide_sequence is negative or not less than the
\* number of template slides, no slide is deleted or duplicated, the output
\* file is not written, and the call ends with an error, never with success.
C14_InvalidIndexRejected ==
    (args.template_exists /\ args.well_formed /\ ~ValidSequence) =>
        /\ pc \in {"start", "loaded", "done"}
        /\ presentation \in {<<>>, Template(args.num_slides)}
        /\ outfile = <<>>
        /\ result.kind # "success"
        /\ pc = "done" => result.kind = "error"

\* a sequence that holds the number of template slides as an index, rejected
\* with the template loaded and untouched
C14_Witness ==
    /\ pc = "done"
    /\ args.template_exists /\ args.well_formed
    /\ args.num_slides = 3
    /\ \E k \in 1..Len(args.slide_sequence) : args.slide_sequence[k] = 3
    /\ \A k \in 1..Len(args.slide_sequence) : args.slide_sequence[k] >= 0
    /\ result.kind = "error"
    /\ presentation = Template(3)

---------------------------------------------------------------------------
(* replace.py: apply_replacements under handle_apply_replacements.         *)
(* An id string is the number it holds and its form: "plain" is            *)
(* f"slide-{n}", "padded" has a leading zero ("slide-00"), "newline" ends  *)
(* with "\n" ("slide-0\n"), "malformed" is any string the pattern rejects.  *)
(* A shape object is known by its place among the collected shapes.        *)

\* re.match(r"^slide-\d+$", slide_id): $ also matches before a final newline
validate_slide_id(slide_id) == slide_id.form \in {"plain", "padded", "newline"}

\* validate_slide_id with the pattern matched to the very end of the string
validate_slide_id_to_end(slide_id) == slide_id.form \in {"plain", "padded"}

validate_shape_id(shape_id) == shape_id.form \in {"plain", "padded", "newline"}

\* int(slide_id.split("-")[1]): int accepts leading zeros and whitespace around
parse_slide_index(slide_id) == slide_id.index

\* f"slide-{slide_idx}" and f"shape-{idx}"
PlainId(idx) == [index |-> idx, form |-> "plain"]

\* the Presentation object over the slides
Loaded(slides) == File(TRUE, TRUE, TRUE, slides)

\* what the sorter and the maps read of a ShapeData, with the place of its
\* shape among the collected shapes
Tagged(shape_data_list) ==
    [i \in 1..Len(shape_data_list) |->
        [top |-> shape_data_list[i].top, left |-> shape_data_list[i].left,
         default_font_size |-> shape_data_list[i].default_font_size, place |-> i]]

\* shape_map and font_sizes, the entry at j + 1 that of shape-j
MapsOf(sorted_shapes) ==
    [raised |-> FALSE,
     shape_map |-> [j \in 1..Len(sorted_shapes) |-> sorted_shapes[j].place],
     font_sizes |-> [j \in 1..Len(sorted_shapes) |-> sorted_shapes[j].default_font_size]]

\* SortedMaps numbering the shapes in the order they were collected
MapsInDocumentOrder(shape_data_list) ==
    IF \E i \in 1..Len(shape_data_list) : shape_data_list[i].raised THEN Raised
    ELSE MapsOf(Tagged(shape_data_list))

SortedMaps(shape_data_list) ==
    IF \E i \in 1..Len(shape_data_list) : shape_data_list[i].raised THEN Raised
    ELSE MapsOf(sort_shapes_by_position(Tagged(shape_data_list)))

\* get_shapes_for_slide(slide, slide_idx): the two maps, or Raised
get_shapes_for_slide(slide) ==
    SortedMaps(ShapeDataList(Loaded(<<slide>>), SlideShapesWithPositions(slide)))

\* an entry of the list of errors
ValidationError(kind, slide_id, shape_id, paragraph) ==
    [kind |-> kind, slide_id |-> slide_id, shape_id |-> shape_id, paragraph |-> paragraph]

NoId == [index |-> None, form |-> "none"]

\* for i, para_spec in enumerate(para_specs): ...
RECURSIVE ValidateParagraphs(_, _, _, _, _)
ValidateParagraphs(slide_id, shape_id, para_specs, i, errors) ==
    IF i >= Len(para_specs) THEN errors
    ELSE ValidateParagraphs(slide_id, shape_id, para_specs, i + 1,
            IF ~para_specs[i + 1].is_dict
            THEN Append(errors, ValidationError("Expected dictionary", slide_id, shape_id, i))
            ELSE IF ~para_specs[i + 1].has_text
            THEN Append(errors, ValidationError("Missing required 'text' field", slide_id, shape_id, i))
            ELSE errors)

\* for shape_id, para_specs in slide_shapes.items(): ...
RECURSIVE ValidateShapes(_, _, _, _)
ValidateShapes(slide_id, items, shape_count, errors) ==
    IF items = <<>> THEN errors
    ELSE ValidateShapes(slide_id, Tail(items), shape_count,
            IF ~validate_shape_id(Head(items)[1])
            THEN Append(errors, ValidationError("Invalid shape ID format", slide_id, Head(items)[1], None))
            ELSE IF ~(Head(items)[1].form = "plain" /\ Head(items)[1].index \in 0..(shape_count - 1))
            THEN Append(errors, ValidationError("Shape not found", slide_id, Head(items)[1], None))
            ELSE IF ~Head(items)[2].is_list
            THEN Append(errors, ValidationError("Expected list of paragraph specifications",
                                                slide_id, Head(items)[1], None))
            ELSE ValidateParagraphs(slide_id, Head(items)[1], Head(items)[2].items, 0, errors))

\* the checks of one slide entry once the slide's shapes are collected
ValidateSlideShapes(slide_id, slide_shapes, maps, errors) ==
    IF maps.raised THEN Raised
    ELSE IF ~slide_shapes.is_dict
    THEN [raised |-> FALSE,
          errors |-> Append(errors, ValidationError("Expected dictionary of shape replacements",
                                                    slide_id, NoId, None))]
    ELSE [raised |-> FALSE,
          errors |-> ValidateShapes(slide_id, slide_shapes.items, Len(maps.shape_map), errors)]

\* the body of the loop over the slide ids of the replacements
ValidateSlide(slide_id, slide_shapes, slides, errors) ==
    IF ~validate_slide_id(slide_id)
    THEN [raised |-> FALSE,
          errors |-> Append(errors, ValidationError("Invalid slide ID format", slide_id, NoId, None))]
    ELSE IF parse_slide_index(slide_id) < 0 \/ parse_slide_index(slide_id) >= Len(slides)
    THEN [raised |-> FALSE,
          errors |-> Append(errors, ValidationError("Slide index out of range", slide_id, NoId, None))]
    ELSE ValidateSlideShapes(slide_id, slide_shapes,
                             get_shapes_for_slide(slides[parse_slide_index(slide_id) + 1]), errors)

RECURSIVE ValidateSlides(_, _, _)

\* the loop goes on unless collecting the shapes of the slide raised
ValidateRest(rest, slides, step) ==
    IF step.raised THEN Raised ELSE ValidateSlides(rest, slides, step.errors)

ValidateSlides(items, slides, errors) ==
    IF items = <<>> THEN [raised |-> FALSE, errors |-> errors]
    ELSE ValidateRest(Tail(items), slides, ValidateSlide(Head(items)[1], Head(items)[2], slides, errors))

\* validate_replacements(replacements, prs): the list of errors, or Raised
validate_replacements(replacements, slides) == ValidateSlides(replacements, slides, <<>>)

\* clear_text_frame(shape): the first paragraph stays with its paragraph
\* properties and without runs, the other paragraphs are removed
clear_text_frame(paragraphs) ==
    IF paragraphs = <<>> THEN paragraphs
    ELSE << [paragraphs[1] EXCEPT !.lines = << <<"">> >>, !.font_size = None, !.font_size_tenths = 0] >>

\* the null of JSON as the value of "text": no line at all, where the empty
\* string is one empty line
JsonNull == <<>>

\* str(text) of run.text = str(text): a string is itself, None reads "None"
str(text) == IF text = JsonNull THEN << <<"None">> >> ELSE text

\* apply_paragraph_formatting(paragraph, spec, default_font_size): the run
\* added with the text of the specification and its font size; the
\* specifications of the model name a text and a font size only
apply_paragraph_formatting(paragraph, spec, default_font_size) ==
    [paragraph EXCEPT
        !.lines = str(spec.text),
        !.font_size = IF spec.font_size # None THEN spec.font_size
                      ELSE IF default_font_size # None THEN default_font_size
                      ELSE None,
        !.font_size_tenths = 0]

\* the loop of apply_replacement_to_shape over a cleared frame: the first
\* specification fills the paragraph left, each other a new one
FillParagraphs(cleared, para_specs, default_font_size) ==
    IF para_specs = <<>> THEN cleared
    ELSE [i \in 1..Len(para_specs) |->
            apply_paragraph_formatting(IF i = 1 THEN cleared[1] ELSE Para(<< <<"">> >>),
                                       para_specs[i], default_font_size)]

apply_replacement_to_shape(paragraphs, para_specs, default_font_size) ==
    FillParagraphs(clear_text_frame(paragraphs), para_specs, default_font_size)

\* apply_replacements that leaves a slide alone when the JSON does not name it
ShapeAfterOnNamedSlides(paragraphs, shape_id, slide_replacements, font_size, clear_unspecified) ==
    IF DictHas(slide_replacements, shape_id)
    THEN apply_replacement_to_shape(paragraphs, DictGet(slide_replacements, shape_id).items,
                                    IF PtOrZero(font_size) # 0 THEN font_size ELSE None)
    ELSE IF clear_unspecified /\ slide_replacements # <<>> THEN clear_text_frame(paragraphs)
    ELSE paragraphs

\* the body of the loop over shape_map.items(): the paragraphs of the shape
\* afterwards; font_sizes holds a size only where it is truthy
ShapeAfter(paragraphs, shape_id, slide_replacements, font_size, clear_unspecified) ==
    IF DictHas(slide_replacements, shape_id)
    THEN apply_replacement_to_shape(paragraphs, DictGet(slide_replacements, shape_id).items,
                                    IF PtOrZero(font_size) # 0 THEN font_size ELSE None)
    ELSE IF clear_unspecified THEN clear_text_frame(paragraphs)
    ELSE paragraphs

\* the number of the shape in shape_map that is the collected shape at place
IdOfPlace(shape_map, place) == CHOOSE j \in 1..Len(shape_map) : shape_map[j] = place

\* the paragraphs of every collected shape of a slide after the loop over
\* shape_map.items()
ParagraphsAfter(shapes_with_positions, maps, slide_replacements, clear_unspecified) ==
    [place \in 1..Len(shapes_with_positions) |->
        ShapeAfter(shapes_with_positions[place].shape.paragraphs,
                   PlainId(IdOfPlace(maps.shape_map, place) - 1),
                   slide_replacements,
                   maps.font_sizes[IdOfPlace(maps.shape_map, place)],
                   clear_unspecified)]

\* the shape tree with the collected shapes, counted from start in document
\* order, holding the paragraphs given
RECURSIVE WithParagraphs(_, _, _)
WithParagraphs(nodes, start, after) ==
    IF nodes = <<>> THEN <<>>
    ELSE << IF IsGroup(Head(nodes))
            THEN [Head(nodes) EXCEPT !.shapes = WithParagraphs(Head(nodes).shapes, start, after)]
            ELSE IF is_valid_shape(Head(nodes))
            THEN [Head(nodes) EXCEPT !.paragraphs = after[start + 1]]
            ELSE Head(nodes) >>
         \o WithParagraphs(Tail(nodes),
                           start + Len(collect_shapes_with_absolute_positions(Head(nodes), 0, 0)),
                           after)

\* replacements.get(slide_id, {})
SlideReplacements(replacements, slide_id) ==
    IF DictHas(replacements, slide_id) THEN DictGet(replacements, slide_id).items ELSE <<>>

\* one turn of the loop over the slides, the maps of the slide in hand
ApplyToSlide(slide, slide_replacements, maps, clear_unspecified) ==
    IF maps.raised THEN Raised
    ELSE [raised |-> FALSE,
          slide |-> Slide(WithParagraphs(slide.shapes, 0,
                        ParagraphsAfter(SlideShapesWithPositions(slide), maps,
                                        slide_replacements, clear_unspecified)))]

RECURSIVE ApplySlides(_, _, _, _)

ApplyRest(slides, slide_idx, replacements, clear_unspecified, step) ==
    IF step.raised THEN Raised
    ELSE ApplySlides([slides EXCEPT ![slide_idx + 1] = step.slide], slide_idx + 1,
                     replacements, clear_unspecified)

\* for slide_idx, slide in enumerate(prs.slides): ...
ApplySlides(slides, slide_idx, replacements, clear_unspecified) ==
    IF slide_idx >= Len(slides) THEN [raised |-> FALSE, slides |-> slides]
    ELSE ApplyRest(slides, slide_idx, replacements, clear_unspecified,
                   ApplyToSlide(slides[slide_idx + 1],
                                SlideReplacements(replacements, PlainId(slide_idx)),
                                get_shapes_for_slide(slides[slide_idx + 1]),
                                clear_unspecified))

\* the checks of handle_apply_replacements and of apply_replacements before
\* the validation, and Presentation(str(pptx_path))
ReplaceOpen ==
    /\ pc = "start"
    /\ IF ~args.pptx.exists
       THEN /\ result' = [kind |-> "error", text |-> "Input file not found"]
            /\ pc' = "done"
            /\ UNCHANGED presentation
       ELSE IF ~args.json_parses
       THEN /\ result' = [kind |-> "error", text |-> "Invalid JSON in replacements_json"]
            /\ pc' = "done"
            /\ UNCHANGED presentation
       ELSE IF ~(args.pptx.is_pptx /\ args.pptx.parseable)
       THEN /\ result' = [kind |-> "error", text |-> "Error applying replacements"]
            /\ pc' = "done"
            /\ UNCHANGED presentation
       ELSE /\ presentation' = args.pptx.slides
            /\ pc' = "loaded"
            /\ UNCHANGED result
    /\ UNCHANGED <<doc, results, outfile, sd_in, sd, shapes, args>>

\* what the call answers to the outcome of validate_replacements
Validated(validation) ==
    IF validation.raised THEN [kind |-> "error", text |-> "Error applying replacements"]
    ELSE IF validation.errors # <<>> THEN [kind |-> "ValueError", errors |-> validation.errors]
    ELSE [kind |-> "none"]

\* errors = validate_replacements(replacements, prs); if errors: raise ValueError
ReplaceValidate ==
    /\ pc = "loaded"
    /\ result' = Validated(validate_replacements(args.replacements, presentation))
    /\ pc' = IF result'.kind = "none" THEN "validated" ELSE "done"
    /\ UNCHANGED <<doc, results, outfile, sd_in, sd, shapes, args, presentation>>

\* the loop over the slides; when it raises the Presentation object is dropped
\* with the changes made to it so far
Applied(applied) ==
    /\ IF applied.raised
       THEN /\ result' = [kind |-> "error", text |-> "Error applying replacements"]
            /\ pc' = "done"
            /\ UNCHANGED presentation
       ELSE /\ presentation' = applied.slides
            /\ pc' = "applied"
            /\ UNCHANGED result

ReplaceApply ==
    /\ pc = "validated"
    /\ Applied(ApplySlides(presentation, 0, args.replacements, args.clear_unspecified))
    /\ UNCHANGED <<doc, results, outfile, sd_in, sd, shapes, args>>

\* prs.save(str(output_path)) and the answer of the handler
ReplaceSave ==
    /\ pc = "applied"
    /\ outfile' = <<presentation>>
    /\ result' = [kind |-> "success"]
    /\ pc' = "done"
    /\ UNCHANGED <<doc, results, sd_in, sd, shapes, args, presentation>>

\* most paragraph specifications of a shape entry
MaxParagraphs == 2

\* most entries of the replacements, and of the entry of a slide
MaxEntries == 2

\* a paragraph specification with a text and a font size
Spec_(text, font_size) == [is_dict |-> TRUE, has_text |-> TRUE, text |-> text, font_size |-> font_size]

TextNew == << <<"New">> >>

ParagraphSpecs ==
    {Spec_(TextNew, None), Spec_(TextNew, 24), Spec_(JsonNull, None),
     [Spec_(TextNew, None) EXCEPT !.has_text = FALSE],
     [Spec_(TextNew, None) EXCEPT !.is_dict = FALSE]}

\* what the JSON gives for a shape: a list of paragraph specifications, or a
\* value that is no list
ShapeValues ==
    {[is_list |-> TRUE, items |-> ps] : ps \in SeqsUpTo(ParagraphSpecs, MaxParagraphs)}
    \cup {[is_list |-> FALSE, items |-> <<>>]}

GoodShapeValue == [is_list |-> TRUE, items |-> <<Spec_(TextNew, None)>>]

\* the ids of the JSON: numbers in and out of range in the plain form, and
\* the other forms of the number 0
Ids(last) ==
    {PlainId(n) : n \in 0..last}
    \cup {[index |-> 0, form |-> f] : f \in {"padded", "newline", "malformed"}}

\* the dictionaries of at most MaxEntries entries, one key each: any value
\* alone, values of the core together
RECURSIVE DictsOver(_, _, _)
DictsOver(keys, core, n) ==
    IF n = 0 THEN {<<>>}
    ELSE DictsOver(keys, core, n - 1)
         \cup {Append(d, <<k, v>>) : d \in {e \in DictsOver(keys, core, n - 1) : Len(e) = n - 1},
                                     k \in keys, v \in core}

Dicts(keys, values, core) ==
    {<< <<k, v>> >> : k \in keys, v \in values}
    \cup {d \in DictsOver(keys, core, MaxEntries) :
            \A i \in 1..Len(d) : \A j \in 1..Len(d) : i # j => d[i][1] # d[j][1]}

\* what the JSON gives for a slide: a dictionary of shape entries, or a value
\* that is no dictionary
SlideValues ==
    {[is_dict |-> TRUE, items |-> d] : d \in Dicts(Ids(3), ShapeValues, {GoodShapeValue})}
    \cup {[is_dict |-> FALSE, items |-> <<>>]}

GoodSlideValue == [is_dict |-> TRUE, items |-> << <<PlainId(0), GoodShapeValue>> >>]

Replacements ==
    Dicts(Ids(2), SlideValues, {GoodSlideValue, [is_dict |-> TRUE, items |-> <<>>]})

\* a title placeholder of two paragraphs whose layout gives 20 pt
TitleLeaf ==
    [Leaf(<< Para(<< <<"Hi">> >>), Para(<< <<"Word">> >>) >>, "TITLE", GeomA, FALSE)
        EXCEPT !.layout_sz = 20]

\* two slides: the first with a shape low on the slide ahead of a higher one
\* and of a group, the second with a title
DeckTwo ==
    File(TRUE, TRUE, TRUE,
         << Slide(<< Leaf(TextPlain, NoneStr, GeomC, FALSE),
                     Leaf(TextBullet, NoneStr, GeomA, FALSE),
                     Nested(1, << Leaf(TextEmpty, NoneStr, GeomA, FALSE),
                                  Leaf(TextLong, NoneStr, GeomA, FALSE) >>) >>),
            Slide(<< TitleLeaf >>) >>)

\* a second slide whose shape cannot be measured
DeckUnmeasured ==
    File(TRUE, TRUE, TRUE,
         << Slide(<< Leaf(TextPlain, NoneStr, GeomA, FALSE) >>),
            Slide(<< Leaf(TextPlain, NoneStr, GeomA, TRUE) >>) >>)

\* the calls: the tool clears what the JSON leaves out, apply_replacements
\* called on its own may keep it
ReplaceCalls ==
    {[pptx |-> f, json_parses |-> TRUE, replacements |-> r, clear_unspecified |-> c] :
        f \in {DeckTwo, DeckUnmeasured}, r \in Replacements, c \in BOOLEAN}
    \cup {[pptx |-> f, json_parses |-> j, replacements |-> <<>>, clear_unspecified |-> TRUE] :
            f \in {DeckTwo, File(FALSE, TRUE, FALSE, <<>>), File(TRUE, FALSE, FALSE, <<>>),
                   File(TRUE, TRUE, FALSE, <<>>)},
            j \in BOOLEAN}

InitReplace ==
    /\ args \in ReplaceCalls
    /\ doc = NoDocument
    /\ result = [kind |-> "none"]
    /\ results = [io \in BOOLEAN |-> <<>>]
    /\ outfile = <<>>
    /\ sd_in = <<>>
    /\ sd = <<>>
    /\ shapes = <<>>
    /\ presentation = <<>>
    /\ pc = "start"

NextReplace == ReplaceOpen \/ ReplaceValidate \/ ReplaceApply \/ ReplaceSave

SpecReplace == InitReplace /\ [][NextReplace]_vars

---------------------------------------------------------------------------
(* Properties of apply_replacements (specification SpecReplace) *)

\* every leaf of a slide, in document order
LeavesOf(slide) ==
    Flatten([i \in 1..Len(slide.shapes) |-> LeavesUnder(slide.shapes[i], 0)])

\* the place of leaf i among the qualifying leaves of the slide
PlaceOf(leaves, i) == Cardinality({m \in 1..i : is_valid_shape(leaves[m].leaf)})

\* the id of qualifying leaf i of a slide
IdOfLeaf(slide, i) ==
    PlainId(IdOfPlace(get_shapes_for_slide(slide).shape_map, PlaceOf(LeavesOf(slide), i)) - 1)

\* the JSON has an entry for the shape under the id of slide k
NamedIn(replacements, k, shape_id) ==
    /\ DictHas(replacements, PlainId(k - 1))
    /\ DictGet(replacements, PlainId(k - 1)).is_dict
    /\ DictHas(DictGet(replacements, PlainId(k - 1)).items, shape_id)

\* the text of the frame is the empty string
TextIsEmpty(leaf) == Len(leaf.paragraphs) = 1 /\ leaf.paragraphs[1].lines = << <<"">> >>

Replaced == pc = "done" /\ result.kind = "success"

\* leaf i of slide k qualified in the input and the JSON does not name it
LeftOut(k, i) ==
    /\ is_valid_shape(LeavesOf(args.pptx.slides[k])[i].leaf)
    /\ ~NamedIn(args.replacements, k, IdOfLeaf(args.pptx.slides[k], i))

\* C15: after apply_replacements succeeds, every qualifying text shape the
\* JSON does not name, on slides the JSON mentions and on slides it does not,
\* has empty text in the output when clear_unspecified is true, and the
\* paragraphs it had in the input when clear_unspecified is false.
C15_UnnamedShapesClearedOrKept ==
    Replaced =>
        /\ Len(outfile) = 1
        /\ Len(outfile[1]) = Len(args.pptx.slides)
        /\ \A k \in 1..Len(args.pptx.slides) :
              /\ Len(LeavesOf(outfile[1][k])) = Len(LeavesOf(args.pptx.slides[k]))
              /\ \A i \in 1..Len(LeavesOf(args.pptx.slides[k])) :
                    LeftOut(k, i) =>
                        IF args.clear_unspecified
                        THEN TextIsEmpty(LeavesOf(outfile[1][k])[i].leaf)
                        ELSE LeavesOf(outfile[1][k])[i].leaf = LeavesOf(args.pptx.slides[k])[i].leaf

\* the JSON names one shape of the first slide of the two-slide deck: its
\* text is replaced, the other shapes of the slide and the title of the slide
\* the JSON does not mention are empty
C15_Witness ==
    /\ Replaced
    /\ args.clear_unspecified
    /\ args.pptx = DeckTwo
    /\ args.replacements = << <<PlainId(0), GoodSlideValue>> >>
    /\ LeavesOf(outfile[1][1])[2].leaf.paragraphs[1].lines = TextNew
    /\ TextIsEmpty(LeavesOf(outfile[1][1])[1].leaf)
    /\ TextIsEmpty(LeavesOf(outfile[1][1])[4].leaf)
    /\ TextIsEmpty(LeavesOf(outfile[1][2])[1].leaf)

\* the id is not "slide-<n>" or "shape-<n>" with n a number
Malformed(id) == id.form \in {"newline", "malformed"}

\* a flaw of the entry of a shape
FlawedShapeEntry(slides, slide_id, shape_id, value) ==
    \/ Malformed(shape_id)
    \/ /\ ~Malformed(slide_id)
       /\ slide_id.index < Len(slides)
       /\ shape_id.index >= Len(SlideShapesWithPositions(slides[slide_id.index + 1]))
    \/ ~value.is_list
    \/ \E i \in 1..Len(value.items) : ~value.items[i].is_dict \/ ~value.items[i].has_text

\* a flaw of the entry of a slide
FlawedSlideEntry(slides, slide_id, value) ==
    \/ Malformed(slide_id)
    \/ slide_id.index >= Len(slides)
    \/ /\ value.is_dict
       /\ \E i \in 1..Len(value.items) :
             FlawedShapeEntry(slides, slide_id, value.items[i][1], value.items[i][2])

Flawed(replacements, slides) ==
    \E i \in 1..Len(replacements) : FlawedSlideEntry(slides, replacements[i][1], replacements[i][2])

\* C16: when the replacement JSON of a call that has loaded the presentation
\* holds a malformed slide or shape id, a slide index out of range, a shape id
\* the slide does not have, a shape entry that is no list, a paragraph that is
\* no dictionary or a paragraph without a text, the call, unless collecting
\* the shapes of a slide raised, ends with ValueError and a list of errors,
\* and no output file is written.
C16_FlawedJsonRaisesValueError ==
    (/\ pc = "done" /\ presentation # <<>> /\ result.kind # "error"
     /\ Flawed(args.replacements, args.pptx.slides)) =>
        /\ result.kind = "ValueError"
        /\ result.errors # <<>>
        /\ outfile = <<>>

---------------------------------------------------------------------------
(* ooxml.py: pack_document under handle_pack_document.  The file at the    *)
(* output path is <<>> when there is none, else one record: what was there *)
(* before the call, or the archive with complete telling whether every     *)
(* entry was written.                                                      *)

\* output_file.suffix.lower() in VALID_EXTENSIONS
ValidExtension(ext) == ext \in {".docx", ".pptx", ".xlsx"}

\* _validate_with_libreoffice(doc_path): the conversion left an .html file,
\* or soffice is not installed; a conversion without output or a timeout fail
_validate_with_libreoffice(soffice) == soffice \in {"converts", "missing"}

\* the checks of the handler and of pack_document, shutil.copytree and the
\* condensing of the XML files
PackOpen ==
    /\ pc = "start"
    /\ IF ~args.input_is_dir
       THEN /\ result' = [kind |-> "error", text |-> "Directory not found", validated |-> FALSE]
            /\ pc' = "done"
       ELSE IF ~ValidExtension(args.ext)
       THEN /\ result' = [kind |-> "error", text |-> "Invalid file type", validated |-> FALSE]
            /\ pc' = "done"
       ELSE IF args.copy_raises
       THEN /\ result' = [kind |-> "error", text |-> "Error packing document", validated |-> FALSE]
            /\ pc' = "done"
       ELSE /\ pc' = "copied"
            /\ UNCHANGED result
    /\ UNCHANGED <<doc, results, outfile, sd_in, sd, shapes, args, presentation>>

\* with zipfile.ZipFile(output_file, "w", ...) as zf: zf.write(...) for every
\* file; an exception in zf.write leaves the archive with the entries written
\* so far and goes to the handler
PackZip ==
    /\ pc = "copied"
    /\ outfile' = << [kind |-> "archive", complete |-> ~args.write_raises] >>
    /\ IF args.write_raises
       THEN /\ result' = [kind |-> "error", text |-> "Error packing document", validated |-> FALSE]
            /\ pc' = "done"
       ELSE /\ pc' = "zipped"
            /\ UNCHANGED result
    /\ UNCHANGED <<doc, results, sd_in, sd, shapes, args, presentation>>

\* if validate: ..., with validate = validate and not force, and the answer
\* of the handler
PackValidate ==
    /\ pc = "zipped"
    /\ IF (args.validate /\ ~args.force) /\ ~_validate_with_libreoffice(args.soffice)
       THEN /\ outfile' = <<>>
            /\ result' = [kind |-> "failure", text |-> "Validation failed", validated |-> TRUE]
       ELSE /\ result' = [kind |-> "success", warning |-> args.force,
                          validated |-> (args.validate /\ ~args.force)]
            /\ UNCHANGED outfile
    /\ pc' = "done"
    /\ UNCHANGED <<doc, results, sd_in, sd, shapes, args, presentation>>

\* the calls, with what the file system and soffice do
PackCalls ==
    [input_is_dir : BOOLEAN, ext : {".pptx", ".zip"}, validate : BOOLEAN, force : BOOLEAN,
     copy_raises : BOOLEAN, write_raises : BOOLEAN, existed : BOOLEAN,
     soffice : {"converts", "no_output", "missing", "timeout"}]

InitPack ==
    /\ args \in PackCalls
    /\ doc = NoDocument
    /\ result = [kind |-> "none"]
    /\ results = [io \in BOOLEAN |-> <<>>]
    /\ outfile = IF args.existed THEN << [kind |-> "old", complete |-> TRUE] >> ELSE <<>>
    /\ sd_in = <<>>
    /\ sd = <<>>
    /\ shapes = <<>>
    /\ presentation = <<>>
    /\ pc = "start"

NextPack == PackOpen \/ PackZip \/ PackValidate

SpecPack == InitPack /\ [][NextPack]_vars

---------------------------------------------------------------------------
(* Properties of pack_document (specification SpecPack) *)

Packed == pc = "done" /\ ~args.existed

\* C17: after pack_office_document on an output path that did not exist, the
\* output file exists exactly when success was reported; validation ran only
\* with validate true and force false; a failed validation left no file and
\* reported failure; with force true no validation failure is reported and
\* a success carries the warning that validation was skipped.
C17_FileExistsIffSuccess ==
    Packed =>
        /\ (outfile # <<>>) <=> (result.kind = "success")
        /\ result.validated => (args.validate /\ ~args.force)
        /\ result.kind = "failure" => outfile = <<>>
        /\ args.force => (result.kind # "failure" /\ (result.kind = "success" => result.warning))

---------------------------------------------------------------------------
(* sort_shapes_by_position(...) on its own: one call on a list of records *)

SortShapes ==
    /\ pc = "start"
    /\ shapes' = sort_shapes_by_position(args)
    /\ pc' = "done"
    /\ UNCHANGED <<doc, result, results, outfile, sd_in, sd, args, presentation>>

\* most records of a list handed to sort_shapes_by_position
MaxSorted == 3

\* tops and lefts in hundredths of an inch: 50 is at the tolerance from 0,
\* 60 is within it from 30 and beyond it from 0
SortTops == {0, 30, 50, 60}

SortLefts == {0, 100}

\* the records of the list, place telling the same values apart
SortInputs ==
    {[i \in 1..Len(ps) |-> [top |-> ps[i][1], left |-> ps[i][2], place |-> i]] :
        ps \in SeqsUpTo(SortTops \X SortLefts, MaxSorted)}

InitSort ==
    /\ args \in SortInputs
    /\ doc = NoDocument
    /\ result = [kind |-> "none"]
    /\ results = [io \in BOOLEAN |-> <<>>]
    /\ outfile = <<>>
    /\ sd_in = <<>>
    /\ sd = <<>>
    /\ shapes = <<>>
    /\ presentation = <<>>
    /\ pc = "start"

SpecSort == InitSort /\ [][SortShapes]_vars

---------------------------------------------------------------------------
(* Properties of sort_shapes_by_position (specification SpecSort) *)

\* the list in the order of keys, equal keys in the order of the list: the
\* record at i goes behind those with a smaller key and those with its key
\* ahead of it
RankOf(keys, i) ==
    Cardinality({j \in 1..Len(keys) :
        \/ keys[j][1] < keys[i][1]
        \/ (keys[j][1] = keys[i][1] /\ keys[j][2] < keys[i][2])
        \/ (keys[j] = keys[i] /\ j <= i)})

Ranked(list, keys) ==
    [r \in 1..Len(list) |-> list[CHOOSE i \in 1..Len(list) : RankOf(keys, i) = r]]

\* the first record of the row of record i in the sweep over a list
RECURSIVE AnchorOf(_, _)
AnchorOf(list, i) ==
    IF i = 1 THEN 1
    ELSE IF Abs(list[i].top - list[AnchorOf(list, i - 1)].top) <= 50 THEN AnchorOf(list, i - 1)
    ELSE i

ByTopLeft(list) == Ranked(list, [i \in 1..Len(list) |-> <<list[i].top, list[i].left>>])

\* rows in the order they were formed, each by left
ByRowLeft(list) == Ranked(list, [i \in 1..Len(list) |-> <<AnchorOf(list, i), list[i].left>>])

Reference(list) == ByRowLeft(ByTopLeft(list))

\* C18: sort_shapes_by_position returns a permutation of its input, equal to
\* the reference: sorted by (top, left), swept into rows by the distance of
\* each top from the top of the first record of the row (at most half an
\* inch joins), each row sorted by left with equal lefts in the order of the
\* first sort, the rows in the order they were formed.
C18_SortIsTheReference ==
    pc = "done" =>
        /\ Len(shapes) = Len(args)
        /\ \A i \in 1..Len(args) : \E r \in 1..Len(shapes) : shapes[r] = args[i]
        /\ shapes = Reference(args)

\* 60 is within the tolerance of 30 and not of the anchor 0: it starts a row,
\* and the row of 0 and 30 is turned round by left
C18_Witness ==
    /\ pc = "done"
    /\ args = << [top |-> 60, left |-> 0, place |-> 1],
                 [top |-> 0, left |-> 100, place |-> 2],
                 [top |-> 30, left |-> 0, place |-> 3] >>
    /\ shapes = << args[3], args[2], args[1] >>

---------------------------------------------------------------------------
(* collect_shapes_with_absolute_positions(shape) on its own: one call on a *)
(* shape tree with the offsets left at 0                                   *)

CollectShapes ==
    /\ pc = "start"
    /\ shapes' = collect_shapes_with_absolute_positions(args, 0, 0)
    /\ pc' = "done"
    /\ UNCHANGED <<doc, result, results, outfile, sd_in, sd, args, presentation>>

\* a shape without a text frame, such as a picture
Picture(geom) == [Leaf(<<>>, NoneStr, geom, FALSE) EXCEPT !.has_text_frame = FALSE]

\* leaves that pass the filter and leaves that do not
FilterLeaves ==
    {Leaf(TextPlain, NoneStr, GeomA, FALSE), Leaf(TextBullet, NoneStr, GeomC, FALSE),
     Leaf(TextBlank, NoneStr, GeomA, FALSE), Leaf(TextPlain, "SLIDE_NUMBER", GeomA, FALSE),
     Picture(GeomA)}

\* a leaf, leaves under nested groups, and such groups between two leaves
\* inside a group of its own offset
Trees ==
    FilterLeaves
    \cup {Nested(d, children) : d \in 1..MaxDepth, children \in SeqsUpTo(FilterLeaves, MaxTop)}
    \cup {Group(In(200), In(-30), <<before, Nested(d, <<inside>>), after>>) :
            d \in 1..MaxDepth,
            before \in {Leaf(TextPlain, NoneStr, GeomA, FALSE), Leaf(TextBlank, NoneStr, GeomA, FALSE)},
            inside \in {Leaf(TextBullet, NoneStr, GeomC, FALSE), Picture(GeomA)},
            after \in {Leaf(TextLong, NoneStr, GeomC, FALSE), Leaf(TextPlain, "SLIDE_NUMBER", GeomA, FALSE)}}

InitCollect ==
    /\ args \in Trees
    /\ doc = NoDocument
    /\ result = [kind |-> "none"]
    /\ results = [io \in BOOLEAN |-> <<>>]
    /\ outfile = <<>>
    /\ sd_in = <<>>
    /\ sd = <<>>
    /\ shapes = <<>>
    /\ presentation = <<>>
    /\ pc = "start"

SpecCollect == InitCollect /\ [][CollectShapes]_vars

---------------------------------------------------------------------------
(* Properties of collect_shapes_with_absolute_positions (SpecCollect) *)

\* the leaves under a node in document order, each with the groups around
\* it from the outermost in
RECURSIVE LeavesWithin(_, _)
LeavesWithin(node, ancestors) ==
    IF IsGroup(node)
    THEN Flatten([i \in 1..Len(node.shapes) |-> LeavesWithin(node.shapes[i], Append(ancestors, node))])
    ELSE << [leaf |-> node, ancestors |-> ancestors] >>

RECURSIVE SumOf(_, _)
SumOf(nodes, field) ==
    IF nodes = <<>> THEN 0 ELSE nodes[1][field] + SumOf(Tail(nodes), field)

\* the record the claim gives a leaf
Expected(within) ==
    [shape |-> within.leaf,
     absolute_left |-> within.leaf.left + SumOf(within.ancestors, "left"),
     absolute_top |-> within.leaf.top + SumOf(within.ancestors, "top")]

\* the records of the leaves that pass the filter
ExpectedOf(withins) ==
    LET passing == SelectSeq(withins, LAMBDA w : is_valid_shape(w.leaf))
    IN  [i \in 1..Len(passing) |-> Expected(passing[i])]

\* C19: collect_shapes_with_absolute_positions emits one record for each leaf
\* that passes the Shape Filter and none else, in depth-first document order,
\* with the left and top of the leaf plus those of all the groups around it;
\* no record is a group, and a tree without a passing leaf emits nothing.
C19_OneRecordPerQualifyingLeaf ==
    pc = "done" =>
        /\ shapes = ExpectedOf(LeavesWithin(args, <<>>))
        /\ \A i \in 1..Len(shapes) : ~IsGroup(shapes[i].shape)

\* a passing leaf, a group two deep round a passing leaf, a passing leaf:
\* three records, the middle one moved by the three groups round it
C19_Witness ==
    /\ pc = "done"
    /\ args = Group(In(200), In(-30),
                    << Leaf(TextPlain, NoneStr, GeomA, FALSE),
                       Nested(2, << Leaf(TextBullet, NoneStr, GeomC, FALSE) >>),
                       Leaf(TextLong, NoneStr, GeomC, FALSE) >>)
    /\ Len(shapes) = 3
    /\ shapes[1].absolute_left = In(300) /\ shapes[1].absolute_top = In(70)
    /\ shapes[2].absolute_left = In(1200) /\ shapes[2].absolute_top = In(470)
    /\ shapes[3].absolute_left = In(1000) /\ shapes[3].absolute_top = In(370)

---------------------------------------------------------------------------
(* is_valid_shape(shape) on its own: one call on a shape *)

CheckShape ==
    /\ pc = "start"
    /\ result' = [kind |-> "bool", value |-> is_valid_shape(args)]
    /\ pc' = "done"
    /\ UNCHANGED <<doc, results, outfile, sd_in, sd, shapes, args, presentation>>

\* texts: empty, blank, a word, a number, a number between blanks, two
\* numbers on a line, a number and a word, a number in each of two paragraphs
FilterTexts ==
    {TextEmpty, TextBlank, TextPlain,
     << Para(<< <<"7">> >>) >>,
     << Para(<< <<"", "12", "">> >>) >>,
     << Para(<< <<"7", "12">> >>) >>,
     << Para(<< <<"7", "Hi">> >>) >>,
     << Para(<< <<"7">> >>), Para(<< <<"12">> >>) >>}

PlaceholderTypes == {NoneStr, "SLIDE_NUMBER", "FOOTER", "TITLE", "BODY", "DATE"}

FilterShapes ==
    {Leaf(text, placeholder_type, geom, FALSE) :
        text \in FilterTexts, placeholder_type \in PlaceholderTypes, geom \in {GeomA, GeomC}}
    \cup {Picture(GeomA), Picture(GeomC), Group(0, 0, <<>>),
          Group(In(100), In(50), <<Leaf(TextPlain, NoneStr, GeomA, FALSE)>>)}

InitFilter ==
    /\ args \in FilterShapes
    /\ doc = NoDocument
    /\ result = [kind |-> "none"]
    /\ results = [io \in BOOLEAN |-> <<>>]
    /\ outfile = <<>>
    /\ sd_in = <<>>
    /\ sd = <<>>
    /\ shapes = <<>>
    /\ presentation = <<>>
    /\ pc = "start"

SpecFilter == InitFilter /\ [][CheckShape]_vars

---------------------------------------------------------------------------
(* Properties of is_valid_shape (specification SpecFilter) *)

\* the words of the text of the frame that are left when it is trimmed
TrimmedWords(shape) ==
    SelectSeq(Flatten([i \in 1..Len(shape.paragraphs) |-> Flatten(shape.paragraphs[i].lines)]),
              LAMBDA w : w # "")

\* the trimmed text is one run of digits
OnlyDigits(shape) == Len(TrimmedWords(shape)) = 1 /\ TrimmedWords(shape)[1] \in {"7", "12"}

\* C20: is_valid_shape is true exactly when the shape has a text frame, the
\* trimmed text of the frame is not empty, the shape is no slide-number
\* placeholder and it is no footer placeholder whose trimmed text is digits
\* only; a footer placeholder with other text passes, and so does a shape
\* that is no placeholder with digits only.
C20_FilterIsTheConjunction ==
    pc = "done" =>
        /\ result.value <=>
              /\ args.has_text_frame
              /\ TrimmedWords(args) # <<>>
              /\ args.placeholder_type # "SLIDE_NUMBER"
              /\ ~(args.placeholder_type = "FOOTER" /\ OnlyDigits(args))
        /\ (args.has_text_frame /\ args.placeholder_type = "FOOTER"
              /\ TrimmedWords(args) # <<>> /\ ~OnlyDigits(args)) => result.value
        /\ (args.has_text_frame /\ args.placeholder_type = NoneStr /\ OnlyDigits(args)) => result.value

\* a footer placeholder reading "7 Hi" passes
C20_Witness ==
    /\ pc = "done"
    /\ args = Leaf(<< Para(<< <<"7", "Hi">> >>) >>, "FOOTER", GeomA, FALSE)
    /\ result.value

---------------------------------------------------------------------------
(* _get_usable_dimensions(text_frame) on its own: one call on a box and the *)
(* margins of its text frame                                                *)

GetUsableDimensions ==
    /\ pc = "start"
    /\ result' = [kind |-> "dimensions",
                  value |-> _get_usable_dimensions(args.width, args.height, args.text_frame)]
    /\ pc' = "done"
    /\ UNCHANGED <<doc, results, outfile, sd_in, sd, shapes, args, presentation>>

\* margins in EMU: none given, 0, a fifth of an inch
Margins == {None, 0, In(20)}

\* boxes in hundredths of an inch, and the margins of their text frames
UsableCalls ==
    [width : {300, 25}, height : {100, 15},
     text_frame : [margin_top : Margins, margin_bottom : Margins,
                   margin_left : Margins, margin_right : Margins]]

InitUsable ==
    /\ args \in UsableCalls
    /\ doc = NoDocument
    /\ result = [kind |-> "none"]
    /\ results = [io \in BOOLEAN |-> <<>>]
    /\ outfile = <<>>
    /\ sd_in = <<>>
    /\ sd = <<>>
    /\ shapes = <<>>
    /\ presentation = <<>>
    /\ pc = "start"

SpecUsable == InitUsable /\ [][GetUsableDimensions]_vars

---------------------------------------------------------------------------
(* Properties of _get_usable_dimensions (specification SpecUsable) *)

\* a margin that is given counts as given, 0 too
MarginGiven(margin, default) == IF margin = None THEN default ELSE margin

\* C21: the usable width is the width of the box less the left and right
\* margins and the usable height its height less the top and bottom margins,
\* in pixels, each margin being the one given on the text frame whenever one
\* is given, 0 included, and 0.1 inch left and right or 0.05 inch top and
\* bottom when none is given.
C21_MarginsAsGiven ==
    pc = "done" =>
        /\ result.value[1] =
              TruncDiv(args.width * 9144 - MarginGiven(args.text_frame.margin_left, 91440)
                                         - MarginGiven(args.text_frame.margin_right, 91440), 9525)
        /\ result.value[2] =
              TruncDiv(args.height * 9144 - MarginGiven(args.text_frame.margin_top, 45720)
                                          - MarginGiven(args.text_frame.margin_bottom, 45720), 9525)

---------------------------------------------------------------------------
(* the loop of _estimate_frame_overflow over the paragraphs on its own: the *)
(* total height, in thirds of a pixel, of the paragraphs of a text frame    *)

AccumulateHeight ==
    /\ pc = "start"
    /\ result' = [kind |-> "height",
                  value |-> TotalHeight(args.paragraphs, 0, args.usable_width_px, args.default_font_size)]
    /\ pc' = "done"
    /\ UNCHANGED <<doc, results, outfile, sd_in, sd, shapes, args, presentation>>

\* most paragraphs of a text frame whose height is accumulated
MaxHeightParagraphs == 3

\* paragraphs: a word, twelve words at 24 pt, no text, a word with space
\* before and after, two words with a line spacing, a word at 10.5 pt
HeightParagraphs ==
    {ParaOf(1, None), ParaOf(12, 24), Para(<< <<"">> >>),
     [ParaOf(1, None) EXCEPT !.space_before = 6, !.space_after = 3],
     [ParaOf(2, None) EXCEPT !.line_spacing = 20],
     [ParaOf(1, 10) EXCEPT !.font_size_tenths = 5]}

HeightCalls ==
    [paragraphs : SeqsUpTo(HeightParagraphs, MaxHeightParagraphs) \ {<<>>},
     usable_width_px : {20, 270}, default_font_size : {18}]

InitHeight ==
    /\ args \in HeightCalls
    /\ doc = NoDocument
    /\ result = [kind |-> "none"]
    /\ results = [io \in BOOLEAN |-> <<>>]
    /\ outfile = <<>>
    /\ sd_in = <<>>
    /\ sd = <<>>
    /\ shapes = <<>>
    /\ presentation = <<>>
    /\ pc = "start"

SpecHeight == InitHeight /\ [][AccumulateHeight]_vars

---------------------------------------------------------------------------
(* Properties of the accumulated text height (specification SpecHeight) *)

\* the lines the paragraph wraps to, at the size the font is loaded with
WrappedCount(paragraph, usable_width_px, default_font_size) ==
    Len(WrappedLines(paragraph.lines, usable_width_px,
                     IF HasFontSize(paragraph) THEN PtOrZero(paragraph.font_size) ELSE default_font_size))

\* font size times 96/72 in thirds of a pixel, the font size in full
FontLineHeight(paragraph, default_font_size) ==
    IF HasFontSize(paragraph)
    THEN PtOrZero(paragraph.font_size) * 4 + (paragraph.font_size_tenths * 4) \div 10
    ELSE default_font_size * 4

\* what paragraph i adds to the height
Contribution(paragraphs, i, usable_width_px, default_font_size) ==
    IF \A l \in 1..Len(paragraphs[i].lines) : \A w \in 1..Len(paragraphs[i].lines[l]) :
            paragraphs[i].lines[l][w] = ""
    THEN 0
    ELSE WrappedCount(paragraphs[i], usable_width_px, default_font_size)
            * (IF PtOrZero(paragraphs[i].line_spacing) # 0 THEN paragraphs[i].line_spacing * 4
               ELSE FontLineHeight(paragraphs[i], default_font_size))
         + PtOrZero(paragraphs[i].space_after) * 4
         + (IF i = 1 THEN 0 ELSE PtOrZero(paragraphs[i].space_before) * 4)

RECURSIVE SumContributions(_, _, _, _)
SumContributions(paragraphs, i, usable_width_px, default_font_size) ==
    IF i = 0 THEN 0
    ELSE Contribution(paragraphs, i, usable_width_px, default_font_size)
         + SumContributions(paragraphs, i - 1, usable_width_px, default_font_size)

\* C22: the accumulated height is the sum, over the paragraphs with text, of
\* the number of wrapped lines times the line height, plus the space after,
\* plus the space before except for the first paragraph; the line height is
\* the line spacing when one is set and else the font size times 96/72;
\* paragraphs without text add nothing.
C22_HeightIsTheSum ==
    pc = "done" =>
        result.value = SumContributions(args.paragraphs, Len(args.paragraphs),
                                        args.usable_width_px, args.default_font_size)

---------------------------------------------------------------------------
(* _wrap_text_line(line, max_width_px, draw, font) on its own: one call on *)
(* a line, the words of line.split(" ")                                    *)

WrapTextLine ==
    /\ pc = "start"
    /\ result' = [kind |-> "lines",
                  value |-> _wrap_text_line(args.line, args.max_width_px, args.font_size)]
    /\ pc' = "done"
    /\ UNCHANGED <<doc, results, outfile, sd_in, sd, shapes, args, presentation>>

\* most words of a line handed to _wrap_text_line
MaxWords == 3

\* words of 0, 2, 4 and 8 characters; "" stands between two spaces or at
\* an end of the line
WrapWordSet == {"", "Hi", "Word", "Longword"}

\* at 18 pt a character measures 9 pixels
WrapCalls ==
    [line : SeqsUpTo(WrapWordSet, MaxWords) \ {<<>>}, max_width_px : {10, 40, 100}, font_size : {18}]

InitWrap ==
    /\ args \in WrapCalls
    /\ doc = NoDocument
    /\ result = [kind |-> "none"]
    /\ results = [io \in BOOLEAN |-> <<>>]
    /\ outfile = <<>>
    /\ sd_in = <<>>
    /\ sd = <<>>
    /\ shapes = <<>>
    /\ presentation = <<>>
    /\ pc = "start"

SpecWrap == InitWrap /\ [][WrapTextLine]_vars

---------------------------------------------------------------------------
(* Properties of _wrap_text_line (specification SpecWrap) *)

\* the words of a list of lines that are not ""
WordsOf(lines) == SelectSeq(Flatten(lines), LAMBDA w : w # "")

Measure(ws) == textlength(ws, args.font_size)

\* C23: _wrap_text_line returns at least one line; the words of the input
\* are in the output lines in their order, none lost and none twice; every
\* output line of two or more words measures at most the limit; where a line
\* ends, the next word would have taken it past the limit; a word wider than
\* the limit is unbroken on a line of its own.
C23_GreedyWrap ==
    pc = "done" =>
        /\ Len(result.value) >= 1
        /\ WordsOf(result.value) = WordsOf(<<args.line>>)
        /\ \A k \in 1..Len(result.value) :
              Len(result.value[k]) >= 2 => Measure(result.value[k]) <= args.max_width_px
        /\ \A k \in 1..(Len(result.value) - 1) :
              Measure(Append(result.value[k], result.value[k + 1][1])) > args.max_width_px
        /\ \A i \in 1..Len(args.line) :
              Measure(<<args.line[i]>>) > args.max_width_px =>
                  \E k \in 1..Len(result.value) : result.value[k] = <<args.line[i]>>

---------------------------------------------------------------------------
(* The extract_text_inventory tool on the documents it can read: the ids of *)
(* extraction and replacement (specification SpecIds)                      *)

\* the documents of which an inventory is returned
ReadableDocuments == {d \in Documents : d.exists /\ d.is_pptx /\ d.parseable}

InitIds ==
    /\ doc \in ReadableDocuments
    /\ result = [kind |-> "none"]
    /\ results = [io \in BOOLEAN |-> <<>>]
    /\ outfile = <<>>
    /\ sd_in = <<>>
    /\ sd = <<>>
    /\ shapes = <<>>
    /\ pc = "start"
    /\ args = <<>>
    /\ presentation = <<>>

SpecIds == InitIds /\ [][Next]_vars

\* the collected shape that replacement resolves for shape-k of a slide
ResolvedShape(slide, k) ==
    SlideShapesWithPositions(slide)[get_shapes_for_slide(slide).shape_map[k + 1]]

\* the record of an inventory is that of the collected shape: its place on
\* the slide and its paragraphs
RecordOf(record, collected) ==
    /\ record.left = EmuToHundredths(collected.absolute_left)
    /\ record.top = EmuToHundredths(collected.absolute_top)
    /\ record.paragraphs =
          [i \in 1..Len(ShapeParagraphs(collected)) |-> ParagraphToDict(ShapeParagraphs(collected)[i])]

\* a replacement JSON that names one shape of one slide
NamingOne(slide_idx, shape_idx) ==
    << <<PlainId(slide_idx),
         [is_dict |-> TRUE, items |-> << <<PlainId(shape_idx), GoodShapeValue>> >>]>> >>

\* the entries of a slide of an inventory are in range of the map of the slide
\* and report the shapes the map resolves
SlideAgrees(slide_entries, shape_map, collected) ==
    \A j \in 1..Len(slide_entries) :
        /\ slide_entries[j][1][2] < Len(shape_map)
        /\ RecordOf(slide_entries[j][2], collected[shape_map[slide_entries[j][1][2] + 1]])

\* C24: for every inventory returned for the document, full or issues_only,
\* and every slide-n/shape-k in it, replacement resolves slide-n/shape-k to
\* the shape the inventory reports there, and a replacement JSON naming
\* slide-n/shape-k passes validate_replacements against the document.
C24_IdsAgree ==
    \A inventory \in Returned : \A k \in 1..Len(inventory) :
        /\ inventory[k][1][2] < Len(doc.slides)
        /\ SlideAgrees(inventory[k][2],
                       get_shapes_for_slide(doc.slides[inventory[k][1][2] + 1]).shape_map,
                       SlideShapesWithPositions(doc.slides[inventory[k][1][2] + 1]))
        /\ \A j \in 1..Len(inventory[k][2]) :
              validate_replacements(NamingOne(inventory[k][1][2], inventory[k][2][j][1][2]),
                                    doc.slides)
                 = [raised |-> FALSE, errors |-> <<>>]

\* a slide whose first shape lies below and right of its second: both
\* inventories were returned, shape-0 is the second shape of the slide, and
\* the issues_only inventory keeps the first under shape-1
C24_Witness ==
    /\ doc.slides = << Slide(<< Leaf(TextPlain, NoneStr, GeomC, FALSE),
                                Leaf(TextBullet, NoneStr, GeomA, FALSE) >>) >>
    /\ results[FALSE] # <<>> /\ results[TRUE] # <<>>
    /\ \E e \in Entries(results[FALSE][1]) : e[2] = ShapeKey(0) /\ e[3].left = 100
    /\ ResolvedShape(doc.slides[1], 0).shape = doc.slides[1].shapes[2]
    /\ \E e \in Entries(results[TRUE][1]) : e[2] = ShapeKey(1) /\ e[3].left = 800

---------------------------------------------------------------------------
(* Properties of the replaced shapes (specification SpecReplace) *)

\* the entry of the JSON is that of slide k, its key of the form slide-<n>,
\* and has an entry for the shape
NamesShape(entry, k, shape_id) ==
    /\ ~Malformed(entry[1])
    /\ parse_slide_index(entry[1]) = k - 1
    /\ entry[2].is_dict
    /\ DictHas(entry[2].items, shape_id)

\* the paragraphs are those of the specifications, text by text
HoldsTexts(paragraphs, para_specs) ==
    /\ Len(paragraphs) = Len(para_specs)
    /\ \A j \in 1..Len(para_specs) : paragraphs[j].lines = para_specs[j].text

\* the shape holds what the list of specifications asks for
HoldsSpecs(leaf, para_specs) ==
    IF para_specs = <<>> THEN TextIsEmpty(leaf) ELSE HoldsTexts(leaf.paragraphs, para_specs)

\* C25: after apply_replacements succeeds, a shape the JSON names with a list
\* of k >= 1 paragraph specifications holds exactly k paragraphs, their texts
\* the "text" values of the specifications in order and none of the paragraphs
\* it had before; a shape named with an empty list has empty text.
C25_NamedShapesHoldTheSpecs ==
    Replaced =>
        \A k \in 1..Len(args.pptx.slides) : \A i \in 1..Len(LeavesOf(args.pptx.slides[k])) :
            is_valid_shape(LeavesOf(args.pptx.slides[k])[i].leaf) =>
                \A e \in 1..Len(args.replacements) :
                    NamesShape(args.replacements[e], k, IdOfLeaf(args.pptx.slides[k], i)) =>
                        HoldsSpecs(LeavesOf(outfile[1][k])[i].leaf,
                                   DictGet(args.replacements[e][2].items,
                                           IdOfLeaf(args.pptx.slides[k], i)).items)

---------------------------------------------------------------------------
(* Reading order and height on the slide (specification SpecSort) *)

\* C26: in the output of sort_shapes_by_position, a record that comes before
\* another has a top of at most the other's top plus half an inch: no shape
\* is placed ahead of a shape lying more than half an inch above it.
C26_NeverAheadOfAShapeFarAbove ==
    pc = "done" =>
        \A i \in 1..Len(shapes) : \A j \in 1..Len(shapes) :
            i < j => shapes[i].top <= shapes[j].top + RowTolerance

\* a shape exactly half an inch below the other and left of it comes first
C26_Witness ==
    /\ pc = "done"
    /\ args = << [top |-> 0, left |-> 100, place |-> 1],
                 [top |-> 50, left |-> 0, place |-> 2] >>
    /\ shapes = << args[2], args[1] >>

=============================================================================
